---- MODULE Spec2Model ----
(***************************************************************************)
(* CueMesh: the coordinator's session manager and command dispatcher       *)
(* (controller/server.py) and the agent's playback driver                  *)
(* (client/connection.py, client/clock_client.py, shared/clock_sync.py).   *)
(***************************************************************************)
EXTENDS Integers, Sequences, FiniteSets, TLC

\* ---------------------------------------------------------------- bounds
\* websocket connections the coordinator accepts in one run
MaxConn == 2
\* uuid4 tokens accept_client can issue in one run
MaxToken == 2
\* clock ticks of one run
MaxTicks == 0
\* fan-out coroutines in progress at once
MaxTasks == 1
\* frames the coordinator sends one agent in one run
MaxMsgs == 3
\* frames received by the agent and not yet handled
MaxInbox == 2
\* how far the agent's clock runs, in ticks
MaxClock == 3
\* the largest |drift_ms| compute_drift_correction is given
MaxDriftMs == 320
\* add_sample calls on one ClockSyncState
MaxSamples == 9
\* ticks of the coordinator's wall clock while it handles the frames of its clients
MaxBeats == 1
\* SYNC_REPLY frames one session is sent
MaxReplies == 2
\* restarts of the coordinator process
MaxRestarts == 1
\* REJECT frames on their way to one agent
MaxRejects == 1

\* ------------------------------------------------------------- constants
\* Optional[str] token that is None
NoToken == 0
\* no session / no connection (Optional[...] that is None)
None == 0
\* initial reading of the coordinator's wall clock, in ms
T0 == 1000
\* one tick of the wall clock, in ms
TickMs == 500
\* ClockClient._sync_interval_ms
SyncIntervalMs == 1000
\* the agent's wall clock is ahead of the coordinator's by this much, or behind, in ms
SkewMs == 20
\* SyncConfig.start_lead_ms
StartLeadMs == 250

Agents == {"A", "B"}
Cues == {"c1"}
\* the cues of a show with two cues, for GO pressed twice
ShowCues == {"c1", "c2"}
\* start_time_ms of the second cue in the show file
CueTwoStartMs == 1000
Conns == 1..MaxConn
\* the ClientSession objects: the one a connection's first HELLO makes goes by
\* the connection's number, the one a further HELLO makes by Spare
Spare == MaxConn + 1
SessionIds == Conns \cup {Spare}
TaskIds == 1..MaxTasks
\* the coroutines of send_stop and send_blackout that the STOP button starts
StopTask == MaxTasks + 1
BlackoutTask == MaxTasks + 2
\* the coroutine of a GO (RunModeWidget._do_go)
GoTask == MaxTasks + 3
AllTasks == TaskIds \cup {StopTask, BlackoutTask, GoTask}
\* a token no accept_client of this run issues (an earlier run's, or a guess)
StaleToken == MaxToken + 1
AllTokens == 1..(MaxToken + 1)

VARIABLES
  \* ---- coordinator (ControllerServer)
  wsState,        \* per connection: "unused" | "open" | "closing" | "closed" | "crashed"
  toServer,       \* per connection: frames received and not yet handled by _handle_client
  handlerSession, \* per connection: _handle_client's local `session` (its key in sessions, or None)
  sessions,       \* the ClientSession objects, each while something refers to it
  clients,        \* ControllerServer._clients: client_id -> session
  order,          \* the keys of _clients in the order the dict holds them (insertion order)
  trusted,        \* ControllerServer._trusted: client_id -> token
  nextToken,      \* the next uuid4 token
  wire,           \* per connection: ACCEPT and REJECT frames written and not yet read by the agent
  tasks,          \* the fan-out coroutines (broadcast_accepted loops, the _sync_loop iteration)
  returned,       \* the fan-out coroutine that returned in the last step, if one did
  clock,          \* the coordinator's wall clock, int(time.time() * 1000)
  handled,        \* the frame _handle_client took in the last step, and on which connection
  restarts,       \* how often the coordinator process has been started again
  \* ---- agent identity (client/connection.py token file)
  agentToken,     \* per agent: the token of cuemesh_client_token.json
  agentConn,      \* per agent: the connection its ClientConnection holds, or None
  running,        \* per agent: ClientConnection._running
  heartbeatTask   \* per agent: _heartbeat_task, "none" | "alive" | "done" (_heartbeat_loop returned)

VARIABLES
  \* ---- agent playback (ClientConnection, ClockClient)
  state,          \* ClientConnection.state
  policy,         \* ClientConnection._dropout_policy
  currentCue,     \* ClientConnection._current_cue_id
  link,           \* the agent's connection: "open" | "closedOK" | "closedErr"
  inbox,          \* frames received on it and not yet handled by the reader loop
  delivered,      \* how many frames the coordinator has sent the agent
  reader,         \* connect(): "recv" (in `async for`) | "sleeping" (in _handle_play_at) | "ended"
  waiting,        \* the PLAY_AT whose delay the reader is sleeping out
  dropoutRan,     \* _handle_dropout has run
  now,            \* the agent's wall clock, int(time.time() * 1000)
  skew,           \* agent's wall clock minus coordinator's wall clock
  offset2,        \* ClockClient.sync_state._offset_ms, in half milliseconds
  sampleCount,    \* ClockClient.sync_state.sample_count
  clockPlaying,   \* ClockClient._playing
  cueStartMaster, \* ClockClient._cue_start_master_ms
  cueStartTime,   \* ClockClient._cue_start_time_ms
  driftTask,      \* ClockClient._drift_task (the id of a task, or None)
  driftTasks,     \* the _drift_loop tasks that are alive, each with the time its sleep ends
  nextTask,       \* the id of the next task asyncio.create_task makes
  plays,          \* the mpv.play() commands of _handle_play_at
  corrections,    \* the runs of _correct_drift: in which state, and whether DRIFT was written
  mpvCmd,         \* the last of play / pause / stop / blackout the agent commanded mpv
  emitted,        \* the READY, ERROR and SYNC_REPLY frames the agent has written to the coordinator
  corrected       \* the run of _correct_drift just made, NoCorrection after any other step

VARIABLES
  \* ---- shared/clock_sync.py
  driftMs,        \* compute_drift_correction: drift_ms
  syncConfig,     \* its max_drift_ms, hard_seek_threshold_ms, rate_min, rate_max
  decision,       \* what it returned: (action, rate), or NoDecision while it has not run
  samples,        \* ClockSyncState._samples
  offsetMs4,      \* ClockSyncState._offset_ms, in quarter milliseconds
  added           \* every sample add_sample was given, in arrival order

VARIABLES
  \* ---- shared/protocol.py
  made,           \* make_envelope: its msg_type and payload, and the reading of _now_ms
  raw,            \* the text of the envelope, a sequence of characters
  parsed          \* what parse_envelope returned for it, or NotParsed

driftVars == <<driftMs, syncConfig, decision>>
estimatorVars == <<samples, offsetMs4, added>>
envelopeVars == <<made, raw, parsed>>
sharedVars == <<driftVars, estimatorVars, envelopeVars>>

connVars == <<link, inbox, delivered, reader, waiting, dropoutRan>>
clockVars == <<clockPlaying, cueStartMaster, cueStartTime, driftTask, driftTasks, nextTask>>
syncState == <<offset2, sampleCount>>
playbackVars == <<state, policy, currentCue, connVars, now, skew, syncState, clockVars,
                  plays, corrections, mpvCmd, emitted, corrected>>

netVars == <<wsState, toServer>>
sessVars == <<handlerSession, sessions, clients, order>>
trustVars == <<trusted, nextToken>>
identVars == <<agentToken, agentConn, running, heartbeatTask>>
coordVars == <<netVars, sessVars, trustVars, wire, tasks, clock, handled, restarts>>
vars == <<coordVars, identVars, returned, playbackVars, sharedVars>>

\* ------------------------------------------------------------ frames
HelloWithoutToken(a, tok) == [type |-> "HELLO", client_id |-> a, token |-> NoToken]
\* _do_hello: HELLO {client_id, token, ...}
Hello(a, tok) == [type |-> "HELLO", client_id |-> a, token |-> tok]
HelloAck == [type |-> "HELLO_ACK", token |-> NoToken]
AcceptWithoutToken(tok) == [type |-> "ACCEPT", token |-> NoToken]
Accept(tok) == [type |-> "ACCEPT", token |-> tok]
RejectUnsent == HelloAck
Reject == [type |-> "REJECT", token |-> NoToken]

\* a frame agent -> coordinator after the HELLO (fault: what is wrong with it:
\* "" nothing, "not_json" the text is not JSON, "type_not_string" its type is a
\* number, "payload_not_map" its payload is a list)
ClientFrame(type) ==
  [type |-> type, token |-> NoToken, t1 |-> 0, fault |-> ""]
Auth(tok) == [ClientFrame("AUTH") EXCEPT !.token = tok]
SyncReply(t1) == [ClientFrame("SYNC_REPLY") EXCEPT !.t1 = t1]
Garbled(type, fault) == [ClientFrame(type) EXCEPT !.fault = fault]

\* no frame was handled in this step
NoFrame == [conn |-> None, frame |-> ClientFrame("")]

\* ------------------------------------------------- ClientSession
\* ClientSession.__init__: status starts "pending", token None,
\* last_heartbeat = time.time(), clock_sync = ClockSyncState()
\* (acked: the HELLO_ACK reply was written to the session's connection;
\*  by: what set the status last - "hello", "auth", "operator" - or "" if nothing has;
\*  probes: the t1 of the SYNC frames written to the session's connection;
\*  synced: the t1 of the samples of clock_sync, in the order they were added)
NewSession(c, a) ==
  [client_id |-> a, token |-> NoToken, ws |-> c, status |-> "pending",
   acked |-> FALSE, by |-> "", last_heartbeat |-> clock, probes |-> {}, synced |-> <<>>]

IsAcceptedNotRejected(s) == s.status # "rejected"
\* no ClientSession (none made yet, or none referred to any more)
NoSession ==
  [client_id |-> "", token |-> NoToken, ws |-> None, status |-> "none",
   acked |-> FALSE, by |-> "", last_heartbeat |-> 0, probes |-> {}, synced |-> <<>>]

\* ClientSession.is_accepted
IsAccepted(s) == s.status = "accepted"

\* some ClientConnection still reads connection c
Attached(c) == \E a \in Agents : agentConn[a] = c

\* ClientSession.send: ws.send(make_envelope(...)); a failure is logged and swallowed.
\* The frame is written only on an open connection.
Writable(c) == wsState[c] = "open"

\* Of the admission frames the agent acts on ACCEPT and REJECT (HELLO_ACK is
\* logged): they stay in flight until the agent reads them, if an agent still
\* reads that connection.
InFlight(w, c, frame) ==
  IF Writable(c) /\ Attached(c) /\ frame.type \in {"ACCEPT", "REJECT"}
    THEN [w EXCEPT ![c] = Append(@, frame)] ELSE w
SessionSend(c, frame) == wire' = InFlight(wire, c, frame)

TokenTrustedAnyToken(tok, a) == tok # NoToken
TokenTrustedNoneToo(tok, a) == trusted[a] = tok
\* _on_hello / _on_auth: `token and self._trusted.get(client_id) == token`
TokenTrusted(tok, a) == tok # NoToken /\ trusted[a] = tok

\* the keys of a dict after `del d[key]`
Without(keys, key) == SelectSeq(keys, LAMBDA x : x # key)

\* the sessions of the live map
LiveSessions == {clients[a] : a \in Agents} \ {None}

\* a fan-out coroutine that has not started
IdleTask == [type |-> "", pc |-> "idle", payload |-> <<>>, snap |-> <<>>,
             sent |-> {}, live0 |-> {}, acc0 |-> {}, same |-> TRUE, t0 |-> 0, ret |-> None,
             after |-> {}, loaded |-> {}]
NoReturn == IdleTask

\* the ClientSession objects something still refers to: the `session` of a
\* handler, the live map, or the snapshot of a fan-out in progress
Collect(ss, hs, tks, cl) ==
  [sid \in SessionIds |->
     IF \/ \E c \in Conns : hs[c] = sid
        \/ \E a \in Agents : cl[a] = sid
        \/ \E k \in AllTasks : \E x \in DOMAIN tks[k].snap : tks[k].snap[x] = sid
       THEN ss[sid] ELSE NoSession]

\* no fan-out coroutine returns in this step, and no frame but a HELLO is taken
Silent ==
  /\ returned' = NoReturn
  /\ handled' = NoFrame
  /\ UNCHANGED <<playbackVars, sharedVars, clock, restarts>>

\* ------------------------------------------------- agent identity
\* connect() + _do_hello(): open a connection and present (client_id, token)
AgentConnect(a) ==
  /\ agentConn[a] = None
  /\ \E c \in Conns :
       /\ wsState[c] = "unused"
       /\ \A d \in Conns : d < c => wsState[d] # "unused"
       /\ wsState' = [wsState EXCEPT ![c] = "open"]
       /\ agentConn' = [agentConn EXCEPT ![a] = c]
       /\ toServer' = [toServer EXCEPT ![c] = <<Hello(a, agentToken[a])>>]
  /\ running' = [running EXCEPT ![a] = TRUE]
  /\ heartbeatTask' = [heartbeatTask EXCEPT ![a] = "alive"]
  /\ UNCHANGED <<sessVars, trustVars, wire, tasks, agentToken>>
  /\ Silent

\* some client opens a connection and presents (client_id, token) in its HELLO
ClientConnect(a, tok) ==
  /\ \E c \in Conns :
       /\ wsState[c] = "unused"
       /\ \A d \in Conns : d < c => wsState[d] # "unused"
       /\ wsState' = [wsState EXCEPT ![c] = "open"]
       /\ toServer' = [toServer EXCEPT ![c] = <<Hello(a, tok)>>]
  /\ UNCHANGED <<sessVars, trustVars, wire, tasks, identVars>>
  /\ Silent

\* _handle_message, ACCEPT: self.token = payload token; _save_token;
\* REJECT: _running = False, which ends the heartbeat loop, not the reader
AgentRecv(a) ==
  /\ agentConn[a] # None
  /\ wire[agentConn[a]] # <<>>
  /\ agentToken' = IF Head(wire[agentConn[a]]).type = "ACCEPT"
                     THEN [agentToken EXCEPT ![a] = Head(wire[agentConn[a]]).token]
                     ELSE agentToken
  /\ running' = IF Head(wire[agentConn[a]]).type = "REJECT"
                  THEN [running EXCEPT ![a] = FALSE]
                  ELSE running
  /\ wire' = [wire EXCEPT ![agentConn[a]] = Tail(@)]
  /\ UNCHANGED <<netVars, sessVars, trustVars, tasks, agentConn, heartbeatTask>>
  /\ Silent

\* the agent's side of the connection ends (connect() returns): frames still
\* on their way to it are lost; the coordinator may not have noticed yet;
\* `finally` cancels the heartbeat task
AgentLost(a) ==
  /\ agentConn[a] # None
  /\ wire' = [wire EXCEPT ![agentConn[a]] = <<>>]
  /\ agentConn' = [agentConn EXCEPT ![a] = None]
  /\ heartbeatTask' = [heartbeatTask EXCEPT ![a] = "none"]
  /\ UNCHANGED <<netVars, sessVars, trustVars, tasks, agentToken, running>>
  /\ Silent

\* _heartbeat_loop, from the end of its sleep to the next sleep or to its
\* return: HEARTBEAT and STATUS are written, and then `while self._running and
\* self._ws` is looked at again. The coordinator's handler takes the two
\* frames, after the frames that came before them: with a session each
\* sets last_heartbeat.
Heartbeat(a) ==
  /\ agentConn[a] # None
  /\ heartbeatTask[a] = "alive"
  /\ toServer[agentConn[a]] = <<>>
  /\ heartbeatTask' = [heartbeatTask EXCEPT ![a] = IF running[a] THEN "alive" ELSE "done"]
  /\ LET c == agentConn[a]
     IN IF wsState[c] = "open" /\ handlerSession[c] # None
          THEN /\ sessions' = [sessions EXCEPT ![handlerSession[c]].last_heartbeat = clock]
               /\ handled' = [conn |-> c, frame |-> ClientFrame("HEARTBEAT")]
          ELSE /\ UNCHANGED sessions
               /\ handled' = NoFrame
  /\ returned' = NoReturn
  /\ UNCHANGED <<netVars, handlerSession, clients, order, trustVars, wire, tasks, clock,
                 restarts, agentToken, agentConn, running, playbackVars, sharedVars>>

\* the coordinator's side of connection c ends: `async for raw in ws` delivers
\* what was received and then stops
NetClose(c) ==
  /\ wsState[c] = "open"
  /\ wsState' = [wsState EXCEPT ![c] = "closing"]
  /\ UNCHANGED <<toServer, sessVars, trustVars, wire, tasks, identVars>>
  /\ Silent

\* ------------------------------------------------- _handle_client
Receiving(c) == wsState[c] \in {"open", "closing"} /\ toServer[c] # <<>>

\* a client whose HELLO has been handled sends another HELLO, as a, on the
\* same connection
ClientHello(c, a, tok) ==
  /\ wsState[c] = "open"
  /\ handlerSession[c] = c
  /\ sessions[Spare] = NoSession
  /\ \A d \in Conns : handlerSession[d] = None \/ toServer[d] = <<>>
  /\ toServer' = [toServer EXCEPT ![c] = <<Hello(a, tok)>>]
  /\ UNCHANGED <<wsState, sessVars, trustVars, wire, tasks, identVars>>
  /\ Silent

\* _on_hello: `session = ClientSession(...)`, a new object at every HELLO
OnHello(c) ==
  /\ Receiving(c)
  /\ Head(toServer[c]).type = "HELLO"
  /\ LET m == Head(toServer[c])
         sid == IF handlerSession[c] = None THEN c ELSE Spare
         s0 == NewSession(c, m.client_id)
         s1 == IF TokenTrusted(m.token, m.client_id)
                 THEN [s0 EXCEPT !.token = m.token, !.status = "accepted",
                                 !.acked = Writable(c), !.by = "hello"]
                 ELSE [s0 EXCEPT !.acked = Writable(c)]
     IN /\ clients' = [clients EXCEPT ![m.client_id] = sid]
        /\ sessions' = Collect([sessions EXCEPT ![sid] = s1],
                               [handlerSession EXCEPT ![c] = sid], tasks, clients')
        /\ order' = IF clients[m.client_id] = None THEN Append(order, m.client_id) ELSE order
        /\ handlerSession' = [handlerSession EXCEPT ![c] = sid]
        /\ SessionSend(c, HelloAck)
  /\ toServer' = [toServer EXCEPT ![c] = Tail(@)]
  /\ UNCHANGED <<wsState, trustVars, tasks, identVars>>
  /\ Silent

\* an AUTH {token} frame arrives on connection c (message catalog, agent ->
\* coordinator): `elif session and msg_type == MSG_AUTH` -> _on_auth
OnAuth(c, tok) ==
  /\ wsState[c] \in {"open", "closing"}
  /\ toServer[c] = <<>>
  /\ handlerSession[c] # None
  /\ LET sid == handlerSession[c]
     IN sessions' = IF TokenTrusted(tok, sessions[sid].client_id)
                      THEN [sessions EXCEPT ![sid].token = tok,
                                            ![sid].status = "accepted",
                                            ![sid].by = "auth"]
                      ELSE sessions
  /\ UNCHANGED <<netVars, handlerSession, clients, order, trustVars, wire, tasks, identVars>>
  /\ Silent

\* the `finally` of _handle_client: `del self._clients[session.client_id]`
\* removes whatever session the map holds under that client_id; with no entry
\* left the del raises KeyError and the handler dies ("crashed")
\* With the handler gone its ClientSession is garbage, unless the snapshot of a
\* fan-out in progress still holds it.
HandlerExit(c) ==
  /\ wsState[c] = "closing"
  /\ toServer[c] = <<>>
  /\ IF handlerSession[c] = None
       THEN /\ wsState' = [wsState EXCEPT ![c] = "closed"]
            /\ UNCHANGED <<clients, order>>
       ELSE LET a == sessions[handlerSession[c]].client_id IN
            IF clients[a] = None
              THEN /\ wsState' = [wsState EXCEPT ![c] = "crashed"]
                   /\ UNCHANGED <<clients, order>>
              ELSE /\ wsState' = [wsState EXCEPT ![c] = "closed"]
                   /\ clients' = [clients EXCEPT ![a] = None]
                   /\ order' = Without(order, a)
  /\ handlerSession' = [handlerSession EXCEPT ![c] = None]
  /\ sessions' = Collect(sessions, handlerSession', tasks, clients')
  /\ UNCHANGED <<toServer, trustVars, wire, tasks, identVars>>
  /\ Silent

\* ------------------------------------------------- frames of a client
\* a reading of the coordinator's clock, and 0: the t1 _on_sync_reply takes
\* from a payload that has none
ReplyT1s == {0, T0}

SyncReplies == {SyncReply(t1) : t1 \in ReplyT1s}

ClientFrames ==
  {ClientFrame(type) : type \in {"HEARTBEAT", "STATUS", "DRIFT", "LOG", "READY"}}
    \cup {Auth(tok) : tok \in {1, StaleToken}}
    \cup {SyncReply(T0)}
    \cup {Garbled("", "not_json"), Garbled("", "type_not_string"),
          Garbled("STATUS", "payload_not_map")}

\* time.time() moves on
ClockTick ==
  /\ clock < T0 + MaxBeats * TickMs
  /\ clock' = clock + TickMs
  /\ returned' = NoReturn
  /\ handled' = NoFrame
  /\ UNCHANGED <<netVars, sessVars, trustVars, wire, tasks, identVars, playbackVars,
                 sharedVars, restarts>>

\* the handler of connection c has taken the frame m
Took(c, m) ==
  /\ handled' = [conn |-> c, frame |-> m]
  /\ returned' = NoReturn
  /\ UNCHANGED <<trustVars, wire, tasks, identVars, playbackVars, sharedVars, clock,
                 restarts>>

\* an exception other than ConnectionClosed leaves _handle_client: `except
\* ConnectionClosed` does not catch it, `finally` deletes the map entry of the
\* session's client_id, the handler dies and the connection is closed with it
Raise(c) ==
  /\ wsState' = [wsState EXCEPT ![c] = "crashed"]
  /\ clients' = IF handlerSession[c] = None THEN clients
                ELSE [clients EXCEPT ![sessions[handlerSession[c]].client_id] = None]
  /\ order' = IF handlerSession[c] = None THEN order
              ELSE Without(order, sessions[handlerSession[c]].client_id)
  /\ handlerSession' = [handlerSession EXCEPT ![c] = None]
  /\ sessions' = Collect(sessions, handlerSession', tasks, clients')
  /\ UNCHANGED toServer

\* the frame is passed over: no branch of _handle_client takes it
Dropped(c) == UNCHANGED <<netVars, sessVars>>

\* a branch of _handle_client has changed the session of connection c to s
Handled(c, s) ==
  /\ sessions' = [sessions EXCEPT ![handlerSession[c]] = s]
  /\ UNCHANGED <<netVars, handlerSession, clients, order>>

\* _handle_client, one frame m that is not a HELLO: parse_envelope (json.loads
\* raises on text that is not JSON), then the branch of its type, taken only
\* with a session: _on_auth, _on_status (payload.get raises on a payload that
\* is no map), _on_drift, HEARTBEAT, _on_log, _on_sync_reply (t1 is compared
\* with nothing), READY. Of the fields _on_status and _on_drift set, the state,
\* cue, position, rate, volume, last_error and drift_ms of the session are left
\* out: nothing in the coordinator reads them but its window.
OnMessage(c, m) ==
  /\ wsState[c] \in {"open", "closing"}
  /\ toServer[c] = <<>>
  /\ m.type = "SYNC_REPLY" /\ handlerSession[c] # None =>
       Len(sessions[handlerSession[c]].synced) < MaxReplies
  /\ Took(c, m)
  /\ LET s == sessions[handlerSession[c]]
     IN IF m.fault = "not_json" THEN Raise(c)
        ELSE IF handlerSession[c] = None \/ m.fault = "type_not_string" THEN Dropped(c)
        ELSE IF m.fault = "payload_not_map" THEN Raise(c)
        ELSE IF m.type = "AUTH" THEN
          Handled(c, IF TokenTrusted(m.token, s.client_id)
                       THEN [s EXCEPT !.token = m.token, !.status = "accepted",
                                      !.by = "auth"]
                       ELSE s)
        ELSE IF m.type \in {"STATUS", "HEARTBEAT"} THEN
          Handled(c, [s EXCEPT !.last_heartbeat = clock])
        ELSE IF m.type = "SYNC_REPLY" THEN
          Handled(c, [s EXCEPT !.synced = Append(@, m.t1)])
        ELSE Handled(c, s)

\* ------------------------------------------------- operator commands
\* accept_client(client_id)
AcceptClient(a) ==
  IF clients[a] = None
    THEN UNCHANGED <<coordVars, identVars>> /\ Silent
    ELSE LET sid == clients[a] IN
         /\ nextToken <= MaxToken
         /\ sessions' = [sessions EXCEPT ![sid].token = nextToken,
                                         ![sid].status = "accepted",
                                         ![sid].by = "operator"]
         /\ trusted' = [trusted EXCEPT ![a] = nextToken]
         /\ nextToken' = nextToken + 1
         /\ SessionSend(sessions[sid].ws, Accept(nextToken))
         /\ UNCHANGED <<netVars, handlerSession, clients, order, tasks, identVars>>
         /\ Silent

\* reject_client(client_id)
RejectClient(a) ==
  IF clients[a] = None
    THEN UNCHANGED <<coordVars, identVars>> /\ Silent
    ELSE LET sid == clients[a] IN
         /\ Cardinality({i \in DOMAIN wire[sessions[sid].ws] :
                           wire[sessions[sid].ws][i].type = "REJECT"}) < MaxRejects
         /\ sessions' = [sessions EXCEPT ![sid].status = "rejected",
                                         ![sid].by = "operator"]
         /\ SessionSend(sessions[sid].ws, Reject)
         /\ UNCHANGED <<netVars, handlerSession, clients, order, trustVars, tasks, identVars>>
         /\ Silent

\* ------------------------------------------------- restart
\* The coordinator process ends and main() starts another: ControllerServer()
\* begins with _clients = {} and _trusted = {} - nothing writes the trust store
\* to a file and main never calls load_trusted. Every connection of the old
\* process is closed, its handlers and fan-outs are gone, the agents' connect()
\* returns; the agents keep their token files, and uuid4 repeats no token.
Restart ==
  /\ restarts < MaxRestarts
  /\ restarts' = restarts + 1
  /\ wsState' = [c \in Conns |-> IF wsState[c] = "unused" THEN "unused" ELSE "closed"]
  /\ toServer' = [c \in Conns |-> <<>>]
  /\ handlerSession' = [c \in Conns |-> None]
  /\ sessions' = [sid \in SessionIds |-> NoSession]
  /\ clients' = [a \in Agents |-> None]
  /\ order' = <<>>
  /\ trusted' = [a \in Agents |-> NoToken]
  /\ wire' = [c \in Conns |-> <<>>]
  /\ tasks' = [k \in AllTasks |-> IdleTask]
  /\ agentConn' = [a \in Agents |-> None]
  /\ heartbeatTask' = [a \in Agents |-> "none"]
  /\ returned' = NoReturn
  /\ handled' = NoFrame
  /\ UNCHANGED <<nextToken, agentToken, running, clock, playbackVars, sharedVars>>

\* ------------------------------------------------- fan-out

\* list(self._clients.values()): the sessions of the live map, in the order
\* the dict holds its keys
Snapshots == {[i \in 1..Len(order) |-> clients[order[i]]]}

\* `for session in list(self._clients.values()): if session.is_accepted: await session.send(...)`
\* from position i up to the next send: the sessions that are not accepted are passed
\* over without a suspension point, the first accepted one is sent to
RECURSIVE NextAccepted(_, _)
NextAccepted(snap, i) ==
  IF i > Len(snap) THEN i
  ELSE IF IsAccepted(sessions[snap[i]]) THEN i
  ELSE NextAccepted(snap, i + 1)

\* one run of the loop from a suspension point to the next (or to the end);
\* t.snap is what is left of the snapshot
LoopStep(t) ==
  LET j == NextAccepted(t.snap, 1)
      reached == {t.snap[k] : k \in {k \in 1..j : k <= Len(t.snap)}}
      same == t.same /\ \A sid \in reached :
                (sid \in t.acc0) <=> (sessions[sid].status = "accepted")
  IN IF j > Len(t.snap)
       THEN [t EXCEPT !.pc = "done", !.snap = <<>>, !.same = same,
                      !.ret = IF t.type = "PLAY_AT" THEN t.payload[2] ELSE None]
       ELSE [t EXCEPT !.snap = SubSeq(t.snap, j + 1, Len(t.snap)), !.same = same,
                      !.sent = @ \cup {[status |-> sessions[t.snap[j]].status,
                                        open |-> Writable(sessions[t.snap[j]].ws),
                                        payload |-> t.payload,
                                        sid |-> t.snap[j]]}]

\* broadcast_accepted(msg_type, payload): snapshot, then the loop up to its first send
NewTask(type, payload, snap, t) ==
  LoopStep([IdleTask EXCEPT !.pc = "run", !.type = type, !.payload = payload,
                            !.snap = snap, !.t0 = t, !.live0 = LiveSessions,
                            !.after = {j \in AllTasks : tasks[j].pc = "run"},
                            !.acc0 = {sid \in LiveSessions : sessions[sid].status = "accepted"}])

\* (after: the coroutines that were in progress when this one was started and
\* still are)
\* the sessions after the send that took the coroutine k to r: a SYNC {t1}
\* written to a session's connection is a probe sent to that session
Probed(ss, k, r) ==
  [c \in SessionIds |->
     IF r.type = "SYNC" /\ \E e \in r.sent \ tasks[k].sent : e.sid = c /\ e.open
       THEN [ss[c] EXCEPT !.probes = @ \cup {r.payload[1]}]
       ELSE ss[c]]

\* what is left of the coroutine k when its broadcast_accepted has returned as
\* r: nothing, or, for _do_go after send_load_cue, the coroutine in its
\* asyncio.sleep, with the cue (loaded: the sessions LOAD_CUE was written to)
Rest(k, r) ==
  IF k = GoTask /\ r.type = "LOAD_CUE"
    THEN [IdleTask EXCEPT !.pc = "sleep", !.payload = r.payload,
                          !.loaded = {e.sid : e \in {x \in r.sent : x.open}}]
    ELSE IdleTask

\* the coroutine k is suspended in a send, or it has returned
Continue(k, r) ==
  /\ IF r.pc = "done"
       THEN /\ tasks' = [j \in AllTasks |->
                          IF j = k THEN Rest(k, r) ELSE [tasks[j] EXCEPT !.after = @ \ {k}]]
            /\ returned' = [r EXCEPT !.after = {}]
       ELSE tasks' = [tasks EXCEPT ![k] = r] /\ returned' = NoReturn
  /\ sessions' = Collect(Probed(sessions, k, r), handlerSession, tasks', clients)
  /\ handled' = NoFrame
  /\ UNCHANGED <<netVars, handlerSession, clients, order, trustVars, wire, identVars,
                 playbackVars, sharedVars, clock, restarts>>

BroadcastAccepted(k, type, payload, t) ==
  /\ tasks[k].pc = "idle"
  /\ \E snap \in Snapshots : Continue(k, NewTask(type, payload, snap, t))

\* a suspended `await session.send(...)` resumes
TaskStep(k) ==
  /\ tasks[k].pc = "run"
  /\ Continue(k, LoopStep(tasks[k]))

MasterStartNoLead(t, lead) == t
\* send_play_at: master_start = int(time.time() * 1000) + start_lead_ms,
\* t the reading of time.time()
MasterStart(t, lead) == t + lead

SendLoadCue(k, cue) == BroadcastAccepted(k, "LOAD_CUE", <<cue>>, 0)
SendPlayAt(k, cue, lead, t) ==
  BroadcastAccepted(k, "PLAY_AT", <<cue, MasterStart(t, lead)>>, t)
SendPause(k) == BroadcastAccepted(k, "PAUSE", <<>>, 0)
SendStop(k) == BroadcastAccepted(k, "STOP", <<>>, 0)
SendBlackout(k, on) == BroadcastAccepted(k, "BLACKOUT", <<on>>, 0)
SendTestscreen(k, on) == BroadcastAccepted(k, "SHOW_TESTSCREEN", <<on>>, 0)
SendSeek(k, pos) == BroadcastAccepted(k, "SEEK_TO", <<pos>>, 0)
SendSetRate(k, rate) == BroadcastAccepted(k, "SET_RATE", <<rate>>, 0)
SendSetVolume(k, vol) == BroadcastAccepted(k, "SET_VOLUME", <<vol>>, 0)
RequestStatusAll(k) == BroadcastAccepted(k, "REQUEST_STATUS", <<>>, 0)

\* _do_go: `await self.server.send_load_cue(cue)`
DoGo(cue) == SendLoadCue(GoTask, cue)

\* _do_go: asyncio.sleep(lead_ms / 1000.0 * 0.5) returns, then
\* `await self.server.send_play_at(cue.id, lead_ms)`, t the reading of time.time()
GoWake(lead, t) ==
  /\ tasks[GoTask].pc = "sleep"
  /\ \E snap \in Snapshots :
       Continue(GoTask,
                [NewTask("PLAY_AT", <<tasks[GoTask].payload[1], MasterStart(t, lead)>>, snap, t)
                   EXCEPT !.loaded = tasks[GoTask].loaded])

\* _sync_loop, one iteration: t1 = now, SYNC {t1_utc_ms: t1} to the accepted sessions;
\* the loop is one coroutine, so no two iterations are in progress at once
SyncLoop(k, t) ==
  /\ \A j \in AllTasks : ~(tasks[j].pc = "run" /\ tasks[j].type = "SYNC")
  /\ BroadcastAccepted(k, "SYNC", <<t>>, t)

\* the readings time.time() can give
Times == {T0 + n * TickMs : n \in 0..MaxTicks}

\* ------------------------------------------------- agent playback
\* frames coordinator -> agent
Msg(type) ==
  [type |-> type, on |-> FALSE, cue_id |-> "", master_start_utc_ms |-> 0, start_time_ms |-> 0]
\* Cue.start_time_ms of the cues of the show
StartTimeMs(cue) == IF cue = "c2" THEN CueTwoStartMs ELSE 0
\* send_load_cue: the payload carries the cue's id and its start_time_ms
LoadCue(cue) == [Msg("LOAD_CUE") EXCEPT !.cue_id = cue, !.start_time_ms = StartTimeMs(cue)]
PlayAt(cue, ms) == [Msg("PLAY_AT") EXCEPT !.cue_id = cue, !.master_start_utc_ms = ms]
Blackout(on) == [Msg("BLACKOUT") EXCEPT !.on = on]

\* ClockSyncState.master_now_ms: int(local_utc_ms - self._offset_ms)
MasterNowMs(local, off2) == (2 * local - off2) \div 2

LocalToMasterAhead(local) == MasterNowMs(local, 2 * SkewMs)
\* ClockClient.local_to_master
LocalToMaster(local) == MasterNowMs(local, offset2)

DelayMsReversed(master_start, master_now) == master_now - master_start
\* _handle_play_at: delay_ms = master_start_utc_ms - master_now
DelayMs(master_start, master_now) == master_start - master_now

\* ClockClient.set_playing: the task of the handle is cancelled, a new one is made
SetPlaying(master_start_utc_ms, cue_start_time_ms) ==
  /\ cueStartMaster' = master_start_utc_ms
  /\ cueStartTime' = cue_start_time_ms
  /\ clockPlaying' = TRUE
  /\ driftTasks' = {x \in driftTasks : x.id # driftTask}
                     \cup {[id |-> nextTask, due |-> now + SyncIntervalMs]}
  /\ driftTask' = nextTask
  /\ nextTask' = nextTask + 1

SetStoppedKeepsTask ==
  /\ clockPlaying' = FALSE
  /\ cueStartMaster' = None
  /\ driftTask' = None
  /\ UNCHANGED <<cueStartTime, driftTasks, nextTask>>
\* ClockClient.set_stopped: the task of the handle, if there is one, is cancelled
SetStopped ==
  /\ clockPlaying' = FALSE
  /\ cueStartMaster' = None
  /\ driftTasks' = {x \in driftTasks : x.id # driftTask}
  /\ driftTask' = None
  /\ UNCHANGED <<cueStartTime, nextTask>>

\* _handle_play_at: `cue_start_ms = 0  # TODO: get from cue payload`
CueStartMs == 0

\* _handle_play_at from `await self.mpv.play()` on
Play(m, delay) ==
  /\ plays' = Append(plays, [master_start |-> m.master_start_utc_ms,
                             delay |-> delay, at |-> now])
  /\ mpvCmd' = "play"
  /\ state' = "playing"
  /\ SetPlaying(m.master_start_utc_ms, CueStartMs)

\* no run of _correct_drift
NoCorrection ==
  [pos |-> None, rate |-> 0, action |-> "", expected_pos_ms |-> 0, drift_ms |-> 0,
   mpv |-> <<>>, drift |-> <<>>]

\* the coordinator's frame m reaches the agent
Deliver(m) ==
  /\ link = "open"
  /\ delivered < MaxMsgs
  /\ Len(inbox) < MaxInbox
  /\ inbox' = Append(inbox, m)
  /\ delivered' = delivered + 1
  /\ UNCHANGED <<state, policy, currentCue, link, reader, waiting, dropoutRan,
                 now, skew, syncState, clockVars, plays, corrections, mpvCmd, emitted>>
  /\ corrected' = NoCorrection
  /\ UNCHANGED <<coordVars, identVars, returned, sharedVars>>

\* a PLAY_AT of a send_play_at issued just now: the coordinator's clock reads now - skew
DeliverPlayAt(cue, lead) == Deliver(PlayAt(cue, MasterStart(now - skew, lead)))

\* `async for raw in ws` hands the reader loop the next frame
Handling(type) ==
  /\ reader = "recv"
  /\ inbox # <<>>
  /\ Head(inbox).type = type
  /\ inbox' = Tail(inbox)
  /\ UNCHANGED <<policy, link, delivered, dropoutRan, now, skew, corrections>>
  /\ corrected' = NoCorrection
  /\ UNCHANGED <<coordVars, identVars, returned, sharedVars>>

\* _handle_load_cue: mpv.load_file(rel_path) is called with four arguments and
\* raises TypeError, which the reader loop logs; the handler ends there, before
\* mpv is commanded and before READY or ERROR is written
HandleLoadCue ==
  /\ Handling("LOAD_CUE")
  /\ state' = "loading"
  /\ currentCue' = Head(inbox).cue_id
  /\ UNCHANGED <<reader, waiting, syncState, clockVars, plays, mpvCmd, emitted>>

\* _handle_play_at up to `await asyncio.sleep(delay_s)`, or to its end when
\* there is no delay to wait
HandlePlayAt ==
  /\ Handling("PLAY_AT")
  /\ LET m == Head(inbox)
         delay == DelayMs(m.master_start_utc_ms, LocalToMaster(now))
     IN IF delay > 0
          THEN /\ reader' = "sleeping"
               /\ waiting' = [m |-> m, delay |-> delay, until |-> now + delay]
               /\ UNCHANGED <<state, clockVars, plays, mpvCmd>>
          ELSE /\ Play(m, delay)
               /\ UNCHANGED <<reader, waiting>>
  /\ UNCHANGED <<currentCue, syncState, emitted>>

NotWaiting == [m |-> Msg(""), delay |-> 0, until |-> 0]

\* asyncio.sleep(delay_s) returns: the rest of _handle_play_at
Wake ==
  /\ reader = "sleeping"
  /\ now >= waiting.until
  /\ reader' = "recv"
  /\ waiting' = NotWaiting
  /\ Play(waiting.m, waiting.delay)
  /\ UNCHANGED <<policy, currentCue, link, inbox, delivered, dropoutRan,
                 now, skew, syncState, corrections, emitted>>
  /\ corrected' = NoCorrection
  /\ UNCHANGED <<coordVars, identVars, returned, sharedVars>>

\* _handle_message, MSG_PAUSE
HandlePause ==
  /\ Handling("PAUSE")
  /\ mpvCmd' = "pause"
  /\ state' = "paused"
  /\ SetStopped
  /\ UNCHANGED <<currentCue, reader, waiting, syncState, plays, emitted>>

\* _handle_message, MSG_STOP
HandleStop ==
  /\ Handling("STOP")
  /\ mpvCmd' = "stop"
  /\ state' = "idle"
  /\ SetStopped
  /\ UNCHANGED <<currentCue, reader, waiting, syncState, plays, emitted>>

\* _handle_message, MSG_BLACKOUT
HandleBlackout ==
  /\ Handling("BLACKOUT")
  /\ IF Head(inbox).on
       THEN mpvCmd' = "blackout" /\ state' = "black" /\ SetStopped
       ELSE state' = "idle" /\ UNCHANGED <<clockVars, mpvCmd>>
  /\ UNCHANGED <<currentCue, reader, waiting, syncState, plays, emitted>>

SyncReplied == [type |-> "SYNC_REPLY", cue_id |-> ""]

HandleSyncAddsSample ==
  /\ Handling("SYNC")
  /\ emitted' = emitted \cup {SyncReplied}
  /\ sampleCount' = 1
  /\ offset2' = 2 * skew
  /\ UNCHANGED <<state, currentCue, reader, waiting, clockVars, plays, mpvCmd>>
\* _handle_message, MSG_SYNC: handle_sync replies SYNC_REPLY and keeps no sample
HandleSync ==
  /\ Handling("SYNC")
  /\ emitted' = emitted \cup {SyncReplied}
  /\ UNCHANGED <<state, currentCue, reader, waiting, syncState, clockVars, plays, mpvCmd>>

\* the connection ends: with a close handshake ("closedOK") or without
LinkClose(how) ==
  /\ link = "open"
  /\ link' = how
  /\ UNCHANGED <<state, policy, currentCue, inbox, delivered, reader, waiting,
                 dropoutRan, now, skew, syncState, clockVars, plays, corrections,
                 mpvCmd, emitted>>
  /\ corrected' = NoCorrection
  /\ UNCHANGED <<coordVars, identVars, returned, sharedVars>>

\* _handle_dropout
HandleDropout ==
  /\ state' = CASE policy = "freeze" -> "paused"
                [] policy = "black" -> "black"
                [] OTHER -> state
  /\ mpvCmd' = CASE policy = "freeze" -> "pause"
                 [] policy = "black" -> "blackout"
                 [] OTHER -> mpvCmd
  /\ SetStopped
  /\ dropoutRan' = TRUE

\* connect() past the reader loop: after a close handshake `async for` just
\* ends; otherwise it raises ConnectionClosedError and the `except Exception`
\* runs _handle_dropout; `finally` clears _ws
ReaderEnd ==
  /\ reader = "recv"
  /\ inbox = <<>>
  /\ link # "open"
  /\ reader' = "ended"
  /\ IF link = "closedErr"
       THEN HandleDropout
       ELSE UNCHANGED <<state, clockVars, dropoutRan, mpvCmd>>
  /\ UNCHANGED <<policy, currentCue, link, inbox, delivered, waiting,
                 now, skew, syncState, plays, corrections, emitted>>
  /\ corrected' = NoCorrection
  /\ UNCHANGED <<coordVars, identVars, returned, sharedVars>>

\* set_dropout_policy
SetDropoutPolicy(p) ==
  /\ policy # p
  /\ policy' = p
  /\ UNCHANGED <<state, currentCue, connVars, now, skew, syncState, clockVars,
                 plays, corrections, mpvCmd, emitted>>
  /\ corrected' = NoCorrection
  /\ UNCHANGED <<coordVars, identVars, returned, sharedVars>>

\* _send: writes only while self._ws is set
WsSet == reader # "ended"

\* the times at which some sleep of the agent ends
Deadlines ==
  {x.due : x \in driftTasks} \cup (IF reader = "sleeping" THEN {waiting.until} ELSE {})

\* the agent's clock advances, to the end of the next sleep at most
Tick ==
  /\ now - skew < T0 + MaxClock * TickMs
  /\ \A d \in Deadlines : d > now
  /\ now' = IF \E d \in Deadlines : d < now + TickMs
              THEN CHOOSE d \in Deadlines : \A e \in Deadlines : d <= e
              ELSE now + TickMs
  /\ UNCHANGED <<state, policy, currentCue, connVars, skew, syncState, clockVars,
                 plays, corrections, mpvCmd, emitted>>
  /\ corrected' = NoCorrection
  /\ UNCHANGED <<coordVars, identVars, returned, sharedVars>>

\* the position mpv reports, None for no answer
Positions == {None, 1}
\* positions that are on time, a little late, late and far off when the loop first runs
CuePositions == {None, SyncIntervalMs, SyncIntervalMs - 100, SyncIntervalMs - 200, 0}

\* ------------------------------------------------- shared/clock_sync.py
\* rates are in ten-thousandths: round(rate, 4) gives a whole number of them
RateOne == 10000

\* ClockClient.__init__: the sync settings an agent runs with
DefaultSync ==
  [max_drift_ms |-> 150, hard_seek_threshold_ms |-> 300, rate_min |-> 9800, rate_max |-> 10200]

\* sync settings of a show file (load_show, [sync] and [sync.correction])
ShowSync ==
  [max_drift_ms |-> 100, hard_seek_threshold_ms |-> 250, rate_min |-> 9500, rate_max |-> 10500]

SyncConfigs == {DefaultSync, ShowSync}
Drifts == (0 - MaxDriftMs)..MaxDriftMs

Abs(x) == IF x < 0 THEN 0 - x ELSE x
Max(x, y) == IF x >= y THEN x ELSE y
Min(x, y) == IF x <= y THEN x ELSE y

\* round(num / den, 0) for den > 0: to the nearest whole number, a half to the even one
Round(num, den) ==
  LET q == num \div den
      r == num % den
  IN CASE 2 * r < den -> q
       [] 2 * r > den -> q + 1
       [] OTHER -> IF q % 2 = 0 THEN q ELSE q + 1

HardSeekAtThreshold(abs_drift, hard_seek_threshold_ms) == abs_drift >= hard_seek_threshold_ms
\* compute_drift_correction: `if abs_drift > hard_seek_threshold_ms`
HardSeek(abs_drift, hard_seek_threshold_ms) == abs_drift > hard_seek_threshold_ms

ProportionalRateReversed(drift_ms, max_drift_ms, rate_min, rate_max) ==
  IF drift_ms > 0
    THEN Round(RateOne * max_drift_ms + Abs(drift_ms) * (rate_max - RateOne), max_drift_ms)
    ELSE Round(RateOne * max_drift_ms - Abs(drift_ms) * (RateOne - rate_min), max_drift_ms)
\* compute_drift_correction, the proportional branch: scale = abs_drift / max_drift_ms,
\* rate = max(rate_min, 1.0 - scale * (1.0 - rate_min)) when drift_ms > 0 and
\* min(rate_max, 1.0 + scale * (rate_max - 1.0)) otherwise; round(rate, 4)
ProportionalRate(drift_ms, max_drift_ms, rate_min, rate_max) ==
  LET abs_drift == Abs(drift_ms)
  IN IF drift_ms > 0
       THEN Round(Max(rate_min * max_drift_ms,
                      RateOne * max_drift_ms - abs_drift * (RateOne - rate_min)),
                  max_drift_ms)
       ELSE Round(Min(rate_max * max_drift_ms,
                      RateOne * max_drift_ms + abs_drift * (rate_max - RateOne)),
                  max_drift_ms)

\* compute_drift_correction
ComputeDriftCorrection(drift_ms, max_drift_ms, hard_seek_threshold_ms, rate_min, rate_max) ==
  LET abs_drift == Abs(drift_ms)
  IN CASE HardSeek(abs_drift, hard_seek_threshold_ms) ->
            [rate |-> RateOne, action |-> "hard_seek"]
       [] ~HardSeek(abs_drift, hard_seek_threshold_ms) /\ abs_drift <= max_drift_ms ->
            [rate |-> ProportionalRate(drift_ms, max_drift_ms, rate_min, rate_max),
             action |-> "rate_adjust"]
       [] OTHER -> [rate |-> RateOne, action |-> "none"]

NoDecision == [rate |-> 0, action |-> ""]

\* _correct_drift with the position pos: what it measured and decided, the
\* commands it gave mpv, and the DRIFT payloads it wrote to the connection
CorrectDrift(pos) ==
  LET master_now == LocalToMaster(now)
      elapsed == master_now - cueStartMaster
      expected_pos_ms == elapsed + cueStartTime
      drift_ms == pos - expected_pos_ms
      d == ComputeDriftCorrection(drift_ms, DefaultSync.max_drift_ms,
                                  DefaultSync.hard_seek_threshold_ms,
                                  DefaultSync.rate_min, DefaultSync.rate_max)
  IN IF pos = None
       THEN [NoCorrection EXCEPT !.action = "skipped", !.expected_pos_ms = expected_pos_ms]
       ELSE [pos |-> pos, rate |-> d.rate, action |-> d.action,
             expected_pos_ms |-> expected_pos_ms, drift_ms |-> drift_ms,
             mpv |-> CASE d.action = "rate_adjust" -> << <<"set_speed", d.rate>> >>
                       [] d.action = "hard_seek" ->
                            << <<"seek", Max(0, expected_pos_ms)>>, <<"set_speed", RateOne>> >>
                       [] OTHER -> <<>>,
             drift |-> IF WsSet
                         THEN <<[action |-> d.action, drift_ms |-> drift_ms,
                                 offset_ms |-> offset2]>>
                         ELSE <<>>]

\* _drift_loop, one turn of a task whose sleep has ended: _correct_drift, then
\* DRIFT (pos is mpv.get_position_ms(): None when mpv gives no answer)
DriftStep(x, pos) ==
  /\ x \in driftTasks
  /\ x.due <= now
  /\ IF clockPlaying /\ cueStartMaster # None
       THEN /\ driftTasks' = (driftTasks \ {x}) \cup {[x EXCEPT !.due = now + SyncIntervalMs]}
            /\ corrections' = IF pos = None THEN corrections
                              ELSE corrections \cup {[state |-> state, drift |-> WsSet]}
            /\ corrected' = CorrectDrift(pos)
       ELSE /\ driftTasks' = driftTasks \ {x}
            /\ corrected' = NoCorrection
            /\ UNCHANGED corrections
  /\ UNCHANGED <<state, policy, currentCue, connVars, now, skew, syncState,
                 clockPlaying, cueStartMaster, cueStartTime, driftTask, nextTask, plays,
                 mpvCmd, emitted>>
  /\ UNCHANGED <<coordVars, identVars, returned, sharedVars>>

\* _correct_drift calls compute_drift_correction on the drift it measured
Decide ==
  /\ decision = NoDecision
  /\ decision' = ComputeDriftCorrection(driftMs, syncConfig.max_drift_ms,
                                        syncConfig.hard_seek_threshold_ms,
                                        syncConfig.rate_min, syncConfig.rate_max)
  /\ UNCHANGED <<driftMs, syncConfig, estimatorVars, envelopeVars>>
  /\ UNCHANGED <<coordVars, identVars, returned, playbackVars>>

\* a drift and the sync settings, before compute_drift_correction is called
InitDrift(d, c) ==
  /\ driftMs = d
  /\ syncConfig = c
  /\ decision = NoDecision

\* ClockSyncState.WINDOW
WINDOW == 8
\* ClockSyncState.OUTLIER_FACTOR
OUTLIER_FACTOR == 2

\* SyncSample(t1, t2, t3, t4)
SyncSample(t1, t2, t3, t4) == [t1 |-> t1, t2 |-> t2, t3 |-> t3, t4 |-> t4]

\* SyncSample.rtt_ms
RttMs(s) == (s.t4 - s.t1) - (s.t3 - s.t2)

OffsetMs2Reversed(s) == (s.t1 - s.t2) + (s.t4 - s.t3)
\* SyncSample.offset_ms, in half milliseconds: ((t2 - t1) + (t3 - t4)) / 2.0
OffsetMs2(s) == (s.t2 - s.t1) + (s.t3 - s.t4)

\* the samples _on_sync_reply makes: a quick round trip (rtt 10, offset 0), another
\* (rtt 12, offset +1), a slow one (rtt 500, offset +100), and one whose t4 lies
\* before its t1, the coordinator's clock having been set back (rtt -10, offset -5)
Samples ==
  {SyncSample(0, 5, 5, 10), SyncSample(0, 7, 7, 12),
   SyncSample(0, 350, 350, 500), SyncSample(10, 0, 0, 0)}

\* statistics.median, doubled: the middle one of the sorted values, or the mean
\* of the two middle ones
Median2(xs) ==
  LET sorted == SortSeq(xs, LAMBDA a, b : a < b)
      n == Len(xs)
  IN IF n % 2 = 1 THEN 2 * sorted[(n + 1) \div 2]
                  ELSE sorted[n \div 2] + sorted[n \div 2 + 1]

GoodAll(ss) == ss
\* _recompute: `good`, the samples with rtt_ms <= median_rtt * OUTLIER_FACTOR
\* when there are three samples or more, and all of them otherwise
Good(ss) ==
  IF Len(ss) >= 3
    THEN LET median_rtt2 == Median2([i \in DOMAIN ss |-> RttMs(ss[i])])
         IN SelectSeq(ss, LAMBDA x : 2 * RttMs(x) <= median_rtt2 * OUTLIER_FACTOR)
    ELSE ss

\* _recompute: the new _offset_ms (prev4 is the one before), in quarter milliseconds
Recompute(ss, prev4) ==
  IF ss = <<>>
    THEN prev4
    ELSE LET good == Good(ss)
         IN IF good # <<>>
              THEN Median2([i \in DOMAIN good |-> OffsetMs2(good[i])])
              ELSE prev4

TrimNewest(ss) == IF Len(ss) > WINDOW THEN SubSeq(ss, 1, WINDOW) ELSE ss
\* add_sample: `if len(self._samples) > self.WINDOW: self._samples.pop(0)`
Trim(ss) == IF Len(ss) > WINDOW THEN Tail(ss) ELSE ss

\* ClockSyncState.add_sample
AddSample(x) ==
  /\ Len(added) < MaxSamples
  /\ samples' = Trim(Append(samples, x))
  /\ offsetMs4' = Recompute(samples', offsetMs4)
  /\ added' = Append(added, x)
  /\ UNCHANGED <<driftVars, envelopeVars>>
  /\ UNCHANGED <<coordVars, identVars, returned, playbackVars>>

\* ClockSyncState.__init__
InitClockSync ==
  /\ samples = <<>>
  /\ offsetMs4 = 0
  /\ added = <<>>

\* ------------------------------------------------- shared/protocol.py
\* Text is a sequence of characters. A JSON value: an int, a str, a bool,
\* None, or a dict (m: its items, each <<key, value>>, in insertion order).
JValue(k) == [s |-> <<>>, k |-> k, m |-> <<>>, n |-> 0, b |-> FALSE]
JInt(n) == [JValue("int") EXCEPT !.n = n]
JStr(cs) == [JValue("str") EXCEPT !.s = cs]
JBool(b) == [JValue("bool") EXCEPT !.b = b]
JNull == JValue("null")
JObj(items) == [JValue("obj") EXCEPT !.m = items]

Digits == <<"0", "1", "2", "3", "4", "5", "6", "7", "8", "9">>

\* json.dumps of a non-negative int
RECURSIVE Decimal(_)
Decimal(n) ==
  IF n < 10 THEN <<Digits[n + 1]>>
  ELSE Decimal(n \div 10) \o <<Digits[(n % 10) + 1]>>

EscapeNothing(cs) == cs
\* json.dumps of a str, between its quotes: '"' and '\' get a '\' in front
RECURSIVE Escape(_)
Escape(cs) ==
  IF cs = <<>> THEN <<>>
  ELSE (IF Head(cs) \in {"\"", "\\"} THEN <<"\\", Head(cs)>> ELSE <<Head(cs)>>)
         \o Escape(Tail(cs))

\* json.dumps(v), separators ", " and ": "
RECURSIVE Dumps(_), DumpsItems(_)
Dumps(v) ==
  CASE v.k = "int" -> IF v.n < 0 THEN <<"-">> \o Decimal(0 - v.n) ELSE Decimal(v.n)
    [] v.k = "str" -> <<"\"">> \o Escape(v.s) \o <<"\"">>
    [] v.k = "bool" -> IF v.b THEN <<"t", "r", "u", "e">> ELSE <<"f", "a", "l", "s", "e">>
    [] v.k = "null" -> <<"n", "u", "l", "l">>
    [] v.k = "obj" -> <<"{">> \o DumpsItems(v.m) \o <<"}">>
DumpsItems(items) ==
  IF items = <<>> THEN <<>>
  ELSE Dumps(JStr(Head(items)[1])) \o <<":", " ">> \o Dumps(Head(items)[2])
         \o (IF Tail(items) = <<>> THEN <<>> ELSE <<",", " ">> \o DumpsItems(Tail(items)))

\* the decoder's result: a value and the text after it, or a failure
Fail == [v |-> JNull, ok |-> FALSE, rest |-> <<>>]
Ok(v, rest) == [v |-> v, ok |-> TRUE, rest |-> rest]

RECURSIVE SkipWs(_)
SkipWs(t) == IF t # <<>> /\ Head(t) = " " THEN SkipWs(Tail(t)) ELSE t

\* a str, from after its opening quote
RECURSIVE ParseString(_, _)
ParseString(t, acc) ==
  IF t = <<>> THEN Fail
  ELSE IF Head(t) = "\"" THEN Ok(JStr(acc), Tail(t))
  ELSE IF Head(t) = "\\"
    THEN IF Len(t) >= 2 /\ t[2] \in {"\"", "\\"}
           THEN ParseString(SubSeq(t, 3, Len(t)), Append(acc, t[2]))
           ELSE Fail
  ELSE ParseString(Tail(t), Append(acc, Head(t)))

IsDigit(ch) == \E d \in 1..10 : Digits[d] = ch
DigitValue(ch) == (CHOOSE d \in 1..10 : Digits[d] = ch) - 1

\* the digits of an int; some: one digit at least was read
RECURSIVE ParseDigits(_, _, _, _)
ParseDigits(t, n, sign, some) ==
  IF t # <<>> /\ IsDigit(Head(t))
    THEN ParseDigits(Tail(t), 10 * n + DigitValue(Head(t)), sign, TRUE)
    ELSE IF some THEN Ok(JInt(sign * n), t) ELSE Fail

Literal(t, word, v) ==
  IF Len(t) >= Len(word) /\ SubSeq(t, 1, Len(word)) = word
    THEN Ok(v, SubSeq(t, Len(word) + 1, Len(t))) ELSE Fail

\* json.loads, one value at the start of the text
RECURSIVE ParseValue(_), ParseItems(_, _)
ParseValue(t0) ==
  LET t == SkipWs(t0)
  IN IF t = <<>> THEN Fail
     ELSE IF Head(t) = "{" THEN
       (IF SkipWs(Tail(t)) # <<>> /\ Head(SkipWs(Tail(t))) = "}"
          THEN Ok(JObj(<<>>), Tail(SkipWs(Tail(t))))
          ELSE ParseItems(Tail(t), <<>>))
     ELSE IF Head(t) = "\"" THEN ParseString(Tail(t), <<>>)
     ELSE IF Head(t) = "-" THEN ParseDigits(Tail(t), 0, 0 - 1, FALSE)
     ELSE IF IsDigit(Head(t)) THEN ParseDigits(t, 0, 1, FALSE)
     ELSE IF Head(t) = "t" THEN Literal(t, <<"t", "r", "u", "e">>, JBool(TRUE))
     ELSE IF Head(t) = "f" THEN Literal(t, <<"f", "a", "l", "s", "e">>, JBool(FALSE))
     ELSE IF Head(t) = "n" THEN Literal(t, <<"n", "u", "l", "l">>, JNull)
     ELSE Fail
\* the items of a dict, from after its "{" or after a ","
ParseItems(t0, acc) ==
  LET t == SkipWs(t0)
  IN IF t = <<>> \/ Head(t) # "\"" THEN Fail
     ELSE LET key == ParseString(Tail(t), <<>>)
              colon == SkipWs(key.rest)
          IN IF ~key.ok \/ colon = <<>> \/ Head(colon) # ":" THEN Fail
             ELSE LET val == ParseValue(Tail(colon))
                      next == SkipWs(val.rest)
                      items == Append(acc, <<key.v.s, val.v>>)
                  IN IF ~val.ok \/ next = <<>> THEN Fail
                     ELSE IF Head(next) = "}" THEN Ok(JObj(items), Tail(next))
                     ELSE IF Head(next) = "," THEN ParseItems(Tail(next), items)
                     ELSE Fail

\* json.loads(raw): one value and nothing after it
Loads(text) ==
  LET r == ParseValue(text)
  IN IF r.ok /\ SkipWs(r.rest) = <<>> THEN r ELSE Fail

KeyType == <<"t", "y", "p", "e">>
KeyTs == <<"t", "s", "_", "u", "t", "c", "_", "m", "s">>
KeyPayload == <<"p", "a", "y", "l", "o", "a", "d">>

HasKey(obj, key) == \E i \in DOMAIN obj.m : obj.m[i][1] = key
\* dict.get(key, default)
Get(obj, key, default) ==
  IF HasKey(obj, key)
    THEN obj.m[CHOOSE i \in DOMAIN obj.m : obj.m[i][1] = key][2]
    ELSE default

\* make_envelope(msg_type, payload), ts the reading of _now_ms()
MakeEnvelope(msg_type, payload, ts) ==
  Dumps(JObj(<<<<KeyType, JStr(msg_type)>>, <<KeyTs, JInt(ts)>>,
               <<KeyPayload, JObj(payload)>>>>))

\* an envelope of a peer that leaves ts_utc_ms out
BareEnvelope(msg_type, payload) ==
  Dumps(JObj(<<<<KeyType, JStr(msg_type)>>, <<KeyPayload, JObj(payload)>>>>))

\* what parse_envelope returns, or the exception it raises
Returned(type, ts, payload) == [type |-> type, payload |-> payload, ts |-> ts, error |-> ""]
Raised(error) == [type |-> JNull, payload |-> JNull, ts |-> JNull, error |-> error]
NotParsed == Raised("not parsed")

\* parse_envelope(raw): data = json.loads(raw);
\* data["type"], data.get("ts_utc_ms", 0), data.get("payload", {})
ParseEnvelope(text) ==
  LET data == Loads(text)
  IN IF ~data.ok THEN Raised("JSONDecodeError")
     ELSE IF data.v.k # "obj" THEN Raised("TypeError")
     ELSE IF ~HasKey(data.v, KeyType) THEN Raised("KeyError")
     ELSE Returned(Get(data.v, KeyType, JNull), Get(data.v, KeyTs, JInt(0)),
                   Get(data.v, KeyPayload, JObj(<<>>)))

\* the message types, keys and values the envelopes are made of
MsgTypes == {<<"S", "T", "O", "P">>, <<"P", "L", "A", "Y", "_", "A", "T">>,
             <<"L", "O", "G">>}
PayloadKeys == {<<"o", "n">>, <<"c", "u", "e", "_", "i", "d">>}
PayloadValues ==
  {JInt(0 - 5), JInt(T0 + StartLeadMs), JBool(TRUE), JNull, JStr(<<"c", "1">>),
   JStr(<<"a", "\"", " ", "\\">>), JObj(<<<<<<"m", "p", "v">>, JBool(FALSE)>>>>)}
\* the payload maps of up to two items
Payloads ==
  {<<>>} \cup {<<<<k, v>>>> : k \in PayloadKeys, v \in PayloadValues}
    \cup {q \in {<<<<k1, v1>>, <<k2, v2>>>> :
                   k1 \in PayloadKeys, k2 \in PayloadKeys,
                   v1 \in PayloadValues, v2 \in PayloadValues} : q[1][1] # q[2][1]}
\* readings of _now_ms()
Stamps == {T0, 1234567890}

\* no envelope has been made
NoEnvelope == [type |-> <<>>, payload |-> <<>>, ts |-> 0, stamped |-> FALSE]

InitEnvelope ==
  /\ made = NoEnvelope
  /\ raw = <<>>
  /\ parsed = NotParsed

\* a peer calls make_envelope(msg_type, payload) and sends the text
Encode(msg_type, payload, ts) ==
  /\ raw = <<>>
  /\ made' = [type |-> msg_type, payload |-> payload, ts |-> ts, stamped |-> TRUE]
  /\ raw' = MakeEnvelope(msg_type, payload, ts)
  /\ parsed' = NotParsed
  /\ UNCHANGED <<coordVars, identVars, returned, playbackVars, driftVars, estimatorVars>>

\* a peer sends an envelope without ts_utc_ms
EncodeBare(msg_type, payload) ==
  /\ raw = <<>>
  /\ made' = [type |-> msg_type, payload |-> payload, ts |-> 0, stamped |-> FALSE]
  /\ raw' = BareEnvelope(msg_type, payload)
  /\ parsed' = NotParsed
  /\ UNCHANGED <<coordVars, identVars, returned, playbackVars, driftVars, estimatorVars>>

\* the receiver calls parse_envelope(raw)
Decode ==
  /\ raw # <<>>
  /\ parsed = NotParsed
  /\ parsed' = ParseEnvelope(raw)
  /\ UNCHANGED <<made, raw>>
  /\ UNCHANGED <<coordVars, identVars, returned, playbackVars, driftVars, estimatorVars>>

\* ------------------------------------------------- the coordinator with its agents
\* ControllerServer.__init__; agent A's token file holds a token this run did
\* not issue, agent B's holds none (first run)
InitCoordinator ==
  /\ wsState = [c \in Conns |-> "unused"]
  /\ toServer = [c \in Conns |-> <<>>]
  /\ handlerSession = [c \in Conns |-> None]
  /\ sessions = [sid \in SessionIds |-> NoSession]
  /\ clients = [a \in Agents |-> None]
  /\ order = <<>>
  /\ trusted = [a \in Agents |-> NoToken]
  /\ nextToken = 1
  /\ wire = [c \in Conns |-> <<>>]
  /\ tasks = [k \in AllTasks |-> IdleTask]
  /\ returned = NoReturn
  /\ clock = T0
  /\ restarts = 0
  /\ handled = NoFrame
  /\ agentToken = [a \in Agents |-> IF a = "A" THEN StaleToken ELSE NoToken]
  /\ agentConn = [a \in Agents |-> None]
  /\ running = [a \in Agents |-> FALSE]
  /\ heartbeatTask = [a \in Agents |-> "none"]

\* ClientConnection.__init__, ClockClient.__init__, ClockSyncState.__init__,
\* connected; sk is how far the agent's wall clock is ahead of the coordinator's
InitPlayback(sk) ==
  /\ state = "idle"
  /\ policy = "continue"
  /\ currentCue = ""
  /\ link = "open"
  /\ inbox = <<>>
  /\ delivered = 0
  /\ reader = "recv"
  /\ waiting = NotWaiting
  /\ dropoutRan = FALSE
  /\ skew = sk
  /\ now = T0 + sk
  /\ offset2 = 0
  /\ sampleCount = 0
  /\ clockPlaying = FALSE
  /\ cueStartMaster = None
  /\ cueStartTime = 0
  /\ driftTask = None
  /\ driftTasks = {}
  /\ nextTask = 1
  /\ plays = <<>>
  /\ corrections = {}
  /\ mpvCmd = ""
  /\ emitted = {}
  /\ corrected = NoCorrection

Init == InitCoordinator /\ InitPlayback(0) /\ InitDrift(0, DefaultSync) /\ InitClockSync /\ InitEnvelope

\* one agent connected, its clock ahead of the coordinator's, behind it or equal
InitAgent ==
  /\ InitCoordinator /\ InitDrift(0, DefaultSync) /\ InitClockSync /\ InitEnvelope
  /\ \E sk \in {0 - SkewMs, 0, SkewMs} : InitPlayback(sk)

Playback ==
  \/ \E cue \in Cues : Deliver(LoadCue(cue))
  \/ \E cue \in Cues, lead \in {0, StartLeadMs} : DeliverPlayAt(cue, lead)
  \/ Deliver(Msg("PAUSE"))
  \/ Deliver(Msg("STOP"))
  \/ \E on \in BOOLEAN : Deliver(Blackout(on))
  \/ Deliver(Msg("SYNC"))
  \/ HandleLoadCue
  \/ HandlePlayAt
  \/ Wake
  \/ HandlePause
  \/ HandleStop
  \/ HandleBlackout
  \/ HandleSync
  \/ \E how \in {"closedOK", "closedErr"} : LinkClose(how)
  \/ ReaderEnd
  \/ \E p \in {"continue", "freeze", "black"} : SetDropoutPolicy(p)
  \/ \E x \in driftTasks, pos \in Positions : DriftStep(x, pos)
  \/ Tick

Admission ==
  \/ \E a \in Agents : AgentConnect(a)
  \/ \E a \in Agents : AgentRecv(a)
  \/ \E a \in Agents : AgentLost(a)
  \/ \E c \in Conns : NetClose(c)
  \/ \E c \in Conns : OnHello(c)
  \/ \E c \in Conns, tok \in AllTokens : OnAuth(c, tok)
  \/ \E c \in Conns : HandlerExit(c)
  \/ \E a \in Agents : AcceptClient(a)
  \/ \E a \in Agents : RejectClient(a)

\* the coordinator's side of admission, whatever the clients present
Serving ==
  \/ \E a \in Agents, tok \in {NoToken} \cup AllTokens : ClientConnect(a, tok)
  \/ \E c \in Conns : NetClose(c)
  \/ \E c \in Conns : OnHello(c)
  \/ \E c \in Conns, tok \in AllTokens : OnAuth(c, tok)
  \/ \E c \in Conns : HandlerExit(c)
  \/ \E a \in Agents : AcceptClient(a)
  \/ \E a \in Agents : RejectClient(a)

FanOut ==
  \/ \E k \in TaskIds, cue \in Cues : SendLoadCue(k, cue)
  \/ \E k \in TaskIds, cue \in Cues, t \in Times : SendPlayAt(k, cue, StartLeadMs, t)
  \/ \E k \in TaskIds : SendPause(k)
  \/ \E k \in TaskIds : SendStop(k)
  \/ \E k \in TaskIds : SendBlackout(k, TRUE)
  \/ \E k \in TaskIds : SendTestscreen(k, TRUE)
  \/ \E k \in TaskIds : SendSeek(k, 0)
  \/ \E k \in TaskIds : SendSetRate(k, 1)
  \/ \E k \in TaskIds : SendSetVolume(k, 100)
  \/ \E k \in TaskIds : RequestStatusAll(k)
  \/ \E k \in TaskIds, t \in Times : SyncLoop(k, t)
  \/ \E k \in TaskIds : TaskStep(k)

Next == Serving \/ FanOut

\* the coordinator, its operator and its agents
Spec == Init /\ [][Next]_vars

\* the coordinator and the frames its clients send it after the HELLO
Session ==
  \/ \E a \in Agents : ClientConnect(a, NoToken)
  \/ \E c \in Conns : NetClose(c)
  \/ \E c \in Conns : OnHello(c)
  \/ \E c \in Conns : HandlerExit(c)
  \/ \E a \in Agents : AcceptClient(a)
  \/ \E c \in Conns, m \in ClientFrames : OnMessage(c, m)
  \/ ClockTick

SpecSession == Init /\ [][Session]_vars

\* the coordinator's clock probes and the replies of its clients
Probing ==
  \/ \E a \in Agents : ClientConnect(a, NoToken)
  \/ \E c \in Conns : NetClose(c)
  \/ \E c \in Conns : OnHello(c)
  \/ \E c \in Conns : HandlerExit(c)
  \/ \E a \in Agents : AcceptClient(a)
  \/ \E c \in Conns, m \in SyncReplies : OnMessage(c, m)
  \/ \E k \in TaskIds : SyncLoop(k, clock)
  \/ \E k \in TaskIds : TaskStep(k)

SpecProbing == Init /\ [][Probing]_vars

\* envelopes made and parsed
Enveloping ==
  \/ \E msg_type \in MsgTypes, payload \in Payloads, ts \in Stamps :
       Encode(msg_type, payload, ts)
  \/ \E msg_type \in MsgTypes, payload \in Payloads : EncodeBare(msg_type, payload)
  \/ Decode

SpecEnvelope == Init /\ [][Enveloping]_vars

\* admission, over a restart of the coordinator
SpecRestart == Init /\ [][Admission \/ Restart]_vars

\* two broadcasts in progress at once
Overlapping ==
  \/ \E a \in Agents : ClientConnect(a, NoToken)
  \/ \E c \in Conns : NetClose(c)
  \/ \E c \in Conns : OnHello(c)
  \/ \E c \in Conns : HandlerExit(c)
  \/ \E a \in Agents : AcceptClient(a)
  \/ \E a \in Agents : RejectClient(a)
  \/ SendStop(StopTask)
  \/ SendBlackout(BlackoutTask, TRUE)
  \/ \E k \in {StopTask, BlackoutTask} : TaskStep(k)

SpecOverlap == Init /\ [][Overlapping]_vars

\* a GO while clients connect, are admitted and leave
Going ==
  \/ \E a \in Agents, tok \in {NoToken, 1} : ClientConnect(a, tok)
  \/ \E c \in Conns : NetClose(c)
  \/ \E c \in Conns : OnHello(c)
  \/ \E c \in Conns : HandlerExit(c)
  \/ \E a \in Agents : AcceptClient(a)
  \/ \E cue \in Cues : DoGo(cue)
  \/ GoWake(StartLeadMs, clock)
  \/ TaskStep(GoTask)

SpecGo == Init /\ [][Going]_vars

\* clients that say HELLO, some of them more than once, and leave
Greeting ==
  \/ \E a \in Agents, tok \in {NoToken, 1} : ClientConnect(a, tok)
  \/ \E c \in Conns, a \in Agents, tok \in {NoToken, 1} : ClientHello(c, a, tok)
  \/ \E c \in Conns : NetClose(c)
  \/ \E c \in Conns : OnHello(c)
  \/ \E c \in Conns : HandlerExit(c)
  \/ \E a \in Agents : AcceptClient(a)

SpecHello == Init /\ [][Greeting]_vars

\* agents under admission, with their heartbeats; the sleep of a heartbeat
\* loop that is alive ends (asyncio.sleep(5.0) returns)
Beating ==
  \/ \E a \in Agents : AgentConnect(a)
  \/ \E a \in Agents : AgentRecv(a)
  \/ \E c \in Conns : NetClose(c)
  \/ \E c \in Conns : OnHello(c)
  \/ \E c \in Conns : HandlerExit(c)
  \/ \E a \in Agents : AcceptClient(a)
  \/ \E a \in Agents : RejectClient(a)
  \/ \E a \in Agents : Heartbeat(a)
  \/ ClockTick

SpecBeat == Init /\ [][Beating]_vars /\ \A a \in Agents : WF_vars(Heartbeat(a))

\* admission alone: no command is issued
\* the agent and the frames of GO flows that overlap
Cueing ==
  \/ \E cue \in ShowCues : Deliver(LoadCue(cue))
  \/ \E cue \in ShowCues : DeliverPlayAt(cue, StartLeadMs)
  \/ HandleLoadCue
  \/ HandlePlayAt
  \/ Wake
  \/ \E x \in driftTasks, pos \in CuePositions : DriftStep(x, pos)
  \/ Tick

SpecCues == InitAgent /\ [][Cueing]_vars

SpecAdmission == Init /\ [][Admission]_vars

\* one agent's playback under the frames the coordinator sends it
SpecAgent == InitAgent /\ [][Playback]_vars

\* compute_drift_correction on every drift and under both sync settings
InitDecide ==
  /\ InitCoordinator /\ InitPlayback(0) /\ InitClockSync /\ InitEnvelope
  /\ \E d \in Drifts, c \in SyncConfigs : InitDrift(d, c)

SpecDrift == InitDecide /\ [][Decide]_vars

\* one ClockSyncState under the samples it is given
Estimating == \E x \in Samples : AddSample(x)

SpecEstimator == Init /\ [][Estimating]_vars

\* ================================================================ claims
\* the sessions a fan-out has sent to
Sids(t) == {e.sid : e \in t.sent}

HelloHandled(c) == handlerSession[c] = None /\ handlerSession'[c] # None

\* the session of connection c leaves pending in this step by an operator's
\* accept_client (a fresh token is issued) or reject_client
ByOperator(c) ==
  /\ clients[sessions[c].client_id] = c
  /\ \/ sessions'[c].status = "accepted" /\ nextToken' = nextToken + 1
     \/ sessions'[c].status = "rejected" /\ nextToken' = nextToken

\* the session of connection c becomes accepted in this step by an AUTH that
\* presents the trusted token of its client_id
ByAuth(c) ==
  /\ sessions'[c].status = "accepted"
  /\ sessions'[c].token # NoToken
  /\ sessions'[c].token = trusted[sessions[c].client_id]
  /\ nextToken' = nextToken /\ trusted' = trusted

\* handling HELLO {client_id, token} on connection c makes the session of c,
\* puts it in the live map, writes HELLO_ACK if the connection still is open, and
\* marks it accepted iff token is a token and is TrustStore[client_id] - pending
\* in every other case
HelloRule(c) ==
  HelloHandled(c) =>
    LET m == Head(toServer[c])
        s == sessions'[c]
    IN /\ s.ws = c /\ s.client_id = m.client_id
       /\ clients'[m.client_id] = c
       /\ s.acked = (wsState[c] = "open")
       /\ s.status = IF m.token # NoToken /\ m.token = trusted[m.client_id]
                       THEN "accepted" ELSE "pending"

\* the session of connection c stops being a pending session in this step
LeavesPending(c) ==
  sessions[c].status = "pending" /\ sessions'[c].status \notin {"pending", "none"}

\* C2 as stated - admission rule: handling HELLO makes a session, replies
\* HELLO_ACK and marks the session accepted iff the token equals
\* TrustStore[agent_id]; in every other case the session is pending until the
\* operator accepts or rejects it.
AdmissionRuleAsStated ==
  [][\A c \in Conns : HelloRule(c) /\ (LeavesPending(c) => ByOperator(c))]_vars

\* C2 - admission rule, amended: handling HELLO makes a session, replies
\* HELLO_ACK and marks the session accepted iff the token equals
\* TrustStore[agent_id]; in every other case the session is pending until the
\* operator accepts or rejects it, or until an AUTH on its connection presents
\* the token of TrustStore[agent_id], which accepts it with no operator action.
AdmissionRule ==
  [][\A c \in Conns :
       HelloRule(c) /\ (LeavesPending(c) => ByOperator(c) \/ ByAuth(c))]_vars

\* two sessions that HELLO left pending, the one accepted by the operator
\* and the other by an AUTH
AdmissionRuleWitness ==
  \E c, d \in Conns :
    /\ sessions[c].status = "accepted" /\ sessions[c].by = "operator" /\ sessions[c].acked
    /\ sessions[d].status = "accepted" /\ sessions[d].by = "auth" /\ sessions[d].acked

\* the agent a reads an ACCEPT in this step
ReadsAccept(a) ==
  /\ agentConn[a] # None /\ agentConn'[a] = agentConn[a]
  /\ Len(wire'[agentConn[a]]) < Len(wire[agentConn[a]])
  /\ Head(wire[agentConn[a]]).type = "ACCEPT"

\* the agent a opens a connection in this step
Connects(a) == agentConn[a] = None /\ agentConn'[a] # None

\* C3 - trusted reconnect end to end: the agent stores the token of the ACCEPT
\* it reads; the token it holds is then the TrustStore's token of its agent_id
\* unless a later accept has replaced it; it presents the token it holds in the
\* HELLO of every connection it opens; and the HELLO of a connection of an
\* agent that holds the TrustStore's token yields an accepted session with no
\* operator action.
TrustedReconnect ==
  /\ [](\A a \in Agents :
          agentToken[a] \in 1..MaxToken =>
            agentToken[a] = trusted[a] \/ agentToken[a] < trusted[a])
  /\ [][\A a \in Agents :
          /\ ReadsAccept(a) => agentToken'[a] = Head(wire[agentConn[a]]).token
          /\ Connects(a) =>
                Head(toServer'[agentConn'[a]]) =
                  [type |-> "HELLO", client_id |-> a, token |-> agentToken[a]]
          /\ \A c \in Conns :
               (HelloHandled(c) /\ agentConn[a] = c
                  /\ agentToken[a] # NoToken /\ agentToken[a] = trusted[a])
               => /\ sessions'[c].status = "accepted"
                  /\ sessions'[c].client_id = a
                  /\ nextToken' = nextToken /\ trusted' = trusted]_vars

\* an agent that holds the TrustStore's token on a connection whose session
\* its HELLO made accepted
TrustedReconnectWitness ==
  \E a \in Agents :
    /\ agentConn[a] # None
    /\ agentToken[a] # NoToken /\ agentToken[a] = trusted[a]
    /\ sessions[agentConn[a]].status = "accepted"
    /\ sessions[agentConn[a]].by = "hello"
    /\ clients[a] = agentConn[a]

\* C4 - single session per agent_id: a connection that holds the one
\* session of its agent_id, and is open, is the live session of that agent_id
\* (the one fan-out commands for the agent_id go to).
SingleSessionPerAgent ==
  \A a \in Agents : \A c \in Conns :
    (/\ wsState[c] = "open" /\ handlerSession[c] # None
     /\ sessions[c].client_id = a
     /\ \A d \in Conns \ {c} : sessions[d].client_id # a)
    => clients[a] = c

\* C5 - scheduled play dispatch: every PLAY_AT of one send_play_at carries the
\* same master_start = now + start_lead_ms, now read once when the command is
\* issued, and send_play_at returns that master_start.
PlayAtDispatch ==
  \A t \in {tasks[k] : k \in TaskIds} \cup {returned} :
    t.type = "PLAY_AT" =>
      /\ \A e \in t.sent : e.payload = <<"c1", t.t0 + StartLeadMs>>
      /\ t.pc = "done" => t.ret = t.t0 + StartLeadMs

\* a send_play_at issued at T0 that reached two accepted sessions and returned
PlayAtDispatchWitness ==
  /\ returned.type = "PLAY_AT" /\ returned.pc = "done"
  /\ Cardinality(returned.sent) = 2
  /\ returned.ret = T0 + StartLeadMs

\* the reader loop takes a PLAY_AT from the connection in this step
TakesPlayAt ==
  /\ reader = "recv" /\ inbox # <<>> /\ Head(inbox).type = "PLAY_AT"
  /\ inbox' = Tail(inbox)

\* in this step the agent commands mpv to play for the PLAY_AT of master_start
\* ms, becomes playing and starts the drift loop
Starts(ms) ==
  /\ Len(plays') = Len(plays) + 1
  /\ plays'[Len(plays')].master_start = ms
  /\ plays'[Len(plays')].at = now
  /\ state' = "playing"
  /\ clockPlaying' /\ cueStartMaster' = ms
  /\ driftTask' # None /\ driftTask' # driftTask
  /\ \E x \in driftTasks' : x.id = driftTask' /\ x.due = now + SyncIntervalMs

\* C6 - agent scheduled start: on PLAY_AT {master_start_utc_ms} the agent
\* computes delay_ms = master_start - local_to_master(now), local_to_master(t)
\* being t - offset_ms of its own offset state; if delay_ms > 0 it waits, playing
\* nothing yet, and when exactly delay_ms have passed it commands play, becomes
\* playing and starts the drift loop; if delay_ms <= 0 it does so at once.
ScheduledStart ==
  [][/\ TakesPlayAt =>
          LET ms == Head(inbox).master_start_utc_ms
              delay == ms - ((2 * now - offset2) \div 2)
          IN IF delay > 0
               THEN /\ reader' = "sleeping"
                    /\ waiting'.until = now + delay
                    /\ waiting'.m = Head(inbox)
                    /\ plays' = plays /\ state' = state /\ driftTasks' = driftTasks
               ELSE reader' = "recv" /\ Starts(ms)
     /\ (reader = "sleeping" /\ reader' # "sleeping") =>
          /\ now = waiting.until
          /\ reader' = "recv"
          /\ Starts(waiting.m.master_start_utc_ms)]_vars

\* the agent has started one PLAY_AT after a wait and another without one
ScheduledStartWitness ==
  /\ state = "playing" /\ driftTasks # {}
  /\ \E i, j \in DOMAIN plays :
       /\ plays[i].delay > 0 /\ plays[i].at = plays[i].master_start + skew
       /\ plays[j].delay <= 0

\* the i-th play is that of the scenario: the agent's clock is 20 ms ahead of
\* the coordinator's, and it handled PLAY_AT {master_start_utc_ms: 1250} when
\* the coordinator's clock read 1000 (its own 1020)
InScenario(i) ==
  /\ skew = 20
  /\ plays[i].master_start = 1250
  /\ plays[i].at - plays[i].delay = 1020

WaitCancelled ==
  [][(/\ reader = "sleeping"
      /\ \E i \in DOMAIN inbox : inbox[i].type \in {"STOP", "PAUSE", "PLAY_AT"})
     => plays' = plays]_vars

\* C9 - drift-task lifecycle: there is at most one drift-correction task,
\* and one is alive only while the agent's state is playing.
DriftTaskLifecycle ==
  /\ Cardinality(driftTasks) <= 1
  /\ driftTasks # {} => state = "playing"

\* C10 - dropout policy: once the agent's control connection has ended,
\* however it ended, the dropout policy has been applied and no drift loop
\* is left.
DropoutPolicy ==
  reader = "ended" => dropoutRan /\ driftTasks = {}

\* the reader loop takes a frame of this type from the connection in this step
Takes(type) ==
  /\ reader = "recv" /\ inbox # <<>> /\ Head(inbox).type = type
  /\ inbox' = Tail(inbox)

\* the wait of _handle_play_at ends in this step
Wakes == reader = "sleeping" /\ reader' = "recv"

\* the rows of the transition table: from, to, and the frame that triggers
Row(from, to, m) ==
  \/ m.type = "LOAD_CUE" /\ from \in {"idle", "error"} /\ to \in {"loading", "ready", "error"}
  \/ m.type = "LOAD_CUE" /\ from = "loading" /\ to \in {"ready", "error"}
  \/ m.type = "PLAY_AT" /\ from \in {"ready", "paused"} /\ to = "playing"
  \/ m.type = "PAUSE" /\ from = "playing" /\ to = "paused"
  \/ m.type = "STOP" /\ to = "idle"
  \/ m.type = "BLACKOUT" /\ m.on /\ to = "black"
  \/ m.type = "BLACKOUT" /\ ~m.on /\ from = "black" /\ to = "idle"

\* C11 - agent state machine conformance: every change of the agent's state
\* made by the handling of a received frame (the dropout policy aside) is a row
\* of the transition table; no other (from, to, trigger) occurs.
StateMachineConformance ==
  [][/\ \A type \in {"LOAD_CUE", "PLAY_AT", "PAUSE", "STOP", "BLACKOUT", "SYNC"} :
          (Takes(type) /\ state' # state) => Row(state, state', Head(inbox))
     /\ (Wakes /\ state' # state) => Row(state, state', waiting.m)]_vars

\* C12 - load outcome: the handling of LOAD_CUE leaves the agent ready, with
\* READY {cue_id} written to the coordinator, or in error; it does not leave it
\* in loading.
LoadOutcome ==
  [][Takes("LOAD_CUE") =>
       /\ state' \in {"ready", "error"}
       /\ state' = "ready" =>
            [type |-> "READY", cue_id |-> Head(inbox).cue_id] \in emitted']_vars

\* C13 - STOP from any state: whatever the state in which the agent handles
\* STOP, afterwards its state is idle, mpv has been told to stop, and no drift
\* loop is running.
StopFromAnyState ==
  [][Takes("STOP") =>
       /\ state' = "idle"
       /\ mpvCmd' = "stop"
       /\ driftTasks' = {} /\ driftTask' = None /\ ~clockPlaying']_vars

\* a STOP handled after a play, which had started a drift loop
StopFromAnyStateWitness ==
  /\ mpvCmd = "stop" /\ state = "idle"
  /\ plays # <<>> /\ nextTask > 1
  /\ driftTasks = {}

\* C14 - observable errors: a LOAD_CUE the agent cannot service is not dropped
\* silently: the agent writes ERROR {cue_id, reason} and enters error.
ObservableErrors ==
  [][(Takes("LOAD_CUE") /\ state' # "ready") =>
       /\ state' = "error"
       /\ \E e \in emitted' : e.type = "ERROR" /\ e.cue_id = Head(inbox).cue_id]_vars

\* compute_drift_correction has returned
Decided == decision # NoDecision

\* C15 - drift decision, middle band: for max_drift_ms < |drift_ms| <=
\* hard_seek_threshold_ms the decision is rate_adjust, with rate_min when
\* drift_ms > 0 and rate_max when drift_ms < 0.
DriftMiddleBand ==
  (/\ Decided
   /\ syncConfig.max_drift_ms < Abs(driftMs)
   /\ Abs(driftMs) <= syncConfig.hard_seek_threshold_ms)
  => /\ decision.action = "rate_adjust"
     /\ decision.rate = IF driftMs > 0 THEN syncConfig.rate_min ELSE syncConfig.rate_max

\* C16 - drift decision, proportional band: for |drift_ms| <= max_drift_ms the
\* decision is rate_adjust with rate = 1 - s(1 - rate_min) when drift_ms > 0 and
\* 1 + s(rate_max - 1) otherwise, s = |drift_ms| / max_drift_ms, rounded to 4
\* decimals; so rate_min <= rate <= rate_max, drift > 0 gives rate <= 1, drift < 0
\* gives rate >= 1, |drift| = max_drift_ms gives rate_min or rate_max, and
\* drift = +75 with max 150 and rate_min 0.98 gives 0.99.
DriftProportionalBand ==
  (Decided /\ Abs(driftMs) <= syncConfig.max_drift_ms) =>
    LET mx == syncConfig.max_drift_ms
        exact == IF driftMs > 0
                   THEN RateOne * mx - Abs(driftMs) * (RateOne - syncConfig.rate_min)
                   ELSE RateOne * mx + Abs(driftMs) * (syncConfig.rate_max - RateOne)
        rate == decision.rate
    IN /\ decision.action = "rate_adjust"
       /\ 2 * Abs(rate * mx - exact) <= mx
       /\ syncConfig.rate_min <= rate /\ rate <= syncConfig.rate_max
       /\ driftMs > 0 => rate <= RateOne
       /\ driftMs < 0 => rate >= RateOne
       /\ driftMs = mx => rate = syncConfig.rate_min
       /\ driftMs = 0 - mx => rate = syncConfig.rate_max
       /\ (driftMs = 75 /\ mx = 150 /\ syncConfig.rate_min = 9800) => rate = 9900

\* the drift of +75 ms under the default settings, decided: rate 0.99
DriftProportionalBandWitness ==
  /\ driftMs = 75 /\ syncConfig = DefaultSync
  /\ decision = [rate |-> 9900, action |-> "rate_adjust"]

\* C17 - drift decision, thresholds: the decision is (hard_seek, 1.0) if and
\* only if |drift_ms| > hard_seek_threshold_ms, and drift_ms = 0 gives
\* (rate_adjust, 1.0).
DriftThresholds ==
  Decided =>
    /\ decision.action = "hard_seek" <=> Abs(driftMs) > syncConfig.hard_seek_threshold_ms
    /\ decision.action = "hard_seek" => decision.rate = RateOne
    /\ driftMs = 0 => decision = [rate |-> RateOne, action |-> "rate_adjust"]

\* a drift one past the threshold, decided: hard_seek
DriftThresholdsWitness ==
  /\ Abs(driftMs) = syncConfig.hard_seek_threshold_ms + 1
  /\ decision = [rate |-> RateOne, action |-> "hard_seek"]

\* the offsets, in half milliseconds, of the samples of the window that pass
\* the filter the estimator is to apply
Filtered ==
  LET rtts == [i \in DOMAIN samples |-> RttMs(samples[i])]
      kept == IF Len(samples) >= 3
                THEN SelectSeq(samples, LAMBDA x : RttMs(x) <= Median2(rtts))
                ELSE samples
  IN [i \in DOMAIN kept |-> OffsetMs2(kept[i])]

\* C18 - estimator invariant: after any sequence of add_sample calls, offset_ms
\* is the median of the offsets of the samples of the window with rtt <= 2 x
\* median(rtt) when the window holds 3 samples or more, the median of all the
\* offsets when it holds 1 or 2, and 0 when it is empty.
EstimatorInvariant ==
  IF samples = <<>>
    THEN offsetMs4 = 0
    ELSE Filtered # <<>> /\ offsetMs4 = Median2(Filtered)

Outlier(x) ==
  /\ Len(samples) >= 3
  /\ RttMs(x) > Median2([i \in DOMAIN samples |-> RttMs(samples[i])])

\* the window with the offset of each of its outliers moved by d ms (t2 and t3
\* moved, so that the rtt stays)
WithOutliersMoved(d) ==
  [i \in DOMAIN samples |->
     IF Outlier(samples[i])
       THEN [samples[i] EXCEPT !.t2 = @ + d, !.t3 = @ + d]
       ELSE samples[i]]

\* C20 - outlier rejection: when the window holds 3 samples or more, a sample
\* whose rtt exceeds 2 x the window's median rtt has no influence on offset_ms
\* (whatever its offset, offset_ms is the same); e.g. after 6 samples with rtt
\* about 10 ms and offset about 0, one more with rtt 500 ms and offset +100
\* leaves offset_ms within 5 ms of 0.
OutlierRejection ==
  /\ \A d \in {0 - 1000, 1000} :
       Recompute(WithOutliersMoved(d), offsetMs4) = offsetMs4
  /\ (/\ Len(samples) = 7
      /\ \A i \in 1..6 : RttMs(samples[i]) \in 10..12 /\ OffsetMs2(samples[i]) \in 0..2
      /\ RttMs(samples[7]) = 500 /\ OffsetMs2(samples[7]) = 200)
     => (0 - 20 <= offsetMs4 /\ offsetMs4 <= 20)

\* six quick samples and then the slow one: the offset is within 5 ms of 0
OutlierRejectionWitness ==
  /\ Len(samples) = 7
  /\ \A i \in 1..6 : RttMs(samples[i]) \in 10..12 /\ OffsetMs2(samples[i]) \in 0..2
  /\ RttMs(samples[7]) = 500 /\ OffsetMs2(samples[7]) = 200
  /\ Outlier(samples[7])
  /\ 0 - 20 <= offsetMs4 /\ offsetMs4 <= 20

\* the sample x is that of an exchange in which the agent's clock is ahead of
\* the coordinator's by ahead ms and each way takes latency ms
EqualLatencies(x, ahead, latency) ==
  /\ x.t2 - x.t1 = latency + ahead
  /\ x.t4 - x.t3 = latency - ahead

\* C21 - SyncSample identities: rtt = (t4 - t1) - (t3 - t2) and offset =
\* ((t2 - t1) + (t3 - t4)) / 2, the offset being agent clock minus coordinator
\* clock: a sample of an exchange with the agent's clock ahead by some ms and
\* equal latencies both ways has that many ms as its offset.
SampleIdentities ==
  \A i \in DOMAIN samples :
    LET x == samples[i]
    IN /\ RttMs(x) = (x.t4 - x.t1) - (x.t3 - x.t2)
       /\ OffsetMs2(x) = (x.t2 - x.t1) + (x.t3 - x.t4)
       /\ \A ahead \in {0 - 5, 0, 1, 100}, latency \in {5, 6, 250} :
            EqualLatencies(x, ahead, latency) =>
              OffsetMs2(x) = 2 * ahead /\ RttMs(x) = 2 * latency

\* a sample of an agent 100 ms ahead, 250 ms each way, is in the window
SampleIdentitiesWitness ==
  \E i \in DOMAIN samples :
    /\ EqualLatencies(samples[i], 100, 250)
    /\ OffsetMs2(samples[i]) = 200 /\ RttMs(samples[i]) = 500

\* C22 - sync probe matching: a session's clock_sync holds a sample only for
\* a SYNC_REPLY whose t1 is that of a SYNC probe written to that session, and
\* one sample for a probe at most: a reply that matches no probe sent to the
\* session (unsolicited, duplicated, never probed) adds no sample.
SyncProbeMatching ==
  \A c \in Conns :
    LET s == sessions[c]
    IN \A i \in DOMAIN s.synced :
         /\ s.synced[i] \in s.probes
         /\ \A j \in DOMAIN s.synced : j # i => s.synced[j] # s.synced[i]

\* C23 - heartbeat liveness: the handling of any frame (HEARTBEAT, STATUS,
\* DRIFT, LOG, SYNC_REPLY, READY, AUTH) on the connection of an accepted
\* session sets the session's last_heartbeat to the time of receipt.
HeartbeatLiveness ==
  [][\A c \in Conns :
       (/\ handled'.conn = c
        /\ handled'.frame.fault = ""
        /\ handlerSession[c] # None
        /\ IsAccepted(sessions[handlerSession[c]]))
       => sessions'[handlerSession[c]].last_heartbeat = clock]_vars

\* C24 - malformed frames keep the connection: a frame that is not well-formed
\* or has no string type is dropped by the coordinator and nothing else
\* happens; the connection stays as it was, the session stays in the live map
\* unchanged, the handler goes on reading.
MalformedKept ==
  [][\A c \in Conns :
       (handled'.conn = c /\ handled'.frame.fault \in {"not_json", "type_not_string"})
       => /\ wsState'[c] = wsState[c]
          /\ handlerSession' = handlerSession
          /\ clients' = clients
          /\ sessions' = sessions]_vars

\* C25 - envelope round trip: parse_envelope(make_envelope(type, payload))
\* returns (type, ts, payload) with the same type, the ts make_envelope
\* stamped and an equal payload, for every type and every payload map; an
\* envelope without ts_utc_ms is parsed with ts = 0.
EnvelopeRoundTrip ==
  parsed # NotParsed =>
    parsed = Returned(JStr(made.type), JInt(made.ts), JObj(made.payload))

\* an envelope whose payload holds a str with a quote in it and a nested map
\* has been made and parsed
EnvelopeRoundTripWitness ==
  /\ parsed # NotParsed
  /\ made.stamped /\ made.ts = 1234567890
  /\ Len(made.payload) = 2
  /\ made.payload[1][2].k = "str"
  /\ \E i \in DOMAIN made.payload[1][2].s : made.payload[1][2].s[i] = "\""
  /\ made.payload[2][2].k = "obj"

\* C26 - trust store durability: the TrustStore survives a restart of the
\* coordinator, and an agent that connects with the token of the last accept
\* - before the restart or after it - gets an accepted session from its HELLO,
\* with no operator action.
TrustDurability ==
  [][/\ restarts' # restarts => trusted' = trusted
     /\ \A a \in Agents, c \in Conns :
          (/\ HelloHandled(c) /\ agentConn[a] = c
           /\ agentToken[a] # NoToken /\ agentToken[a] = nextToken - 1)
          => sessions'[c].status = "accepted" /\ nextToken' = nextToken]_vars

\* the handler of connection c ends in this step
HandlerLeaves(c) == handlerSession[c] # None /\ handlerSession'[c] = None

\* C27 - disconnect effect: when the handler of a closed connection ends, the
\* session that connection created leaves the live map if it is in it, no
\* session of another connection leaves it, and the TrustStore is unchanged.
DisconnectEffect ==
  [][\A c \in Conns :
       HandlerLeaves(c) =>
         /\ \A a \in Agents : clients[a] = c => clients'[a] = None
         /\ \A a \in Agents : clients[a] # c => clients'[a] = clients[a]
         /\ trusted' = trusted]_vars

\* accept_client takes effect for the agent_id a in this step
Accepts(a) == trusted'[a] # trusted[a]

\* C28 - accept operation: accept_client(a) on a session of the live map
\* issues a token that nothing held before, stores it as the TrustStore's
\* token of a, sets the session's token to it and its status to accepted, and
\* writes ACCEPT with that same token to the session's connection; with no
\* live session of a, the live map and the TrustStore stay as they are.
AcceptOperation ==
  [][\A a \in Agents :
       /\ clients[a] = None => ~Accepts(a)
       /\ Accepts(a) =>
            LET sid == clients[a]
                tok == trusted'[a]
                ws == sessions[sid].ws
            IN /\ tok # NoToken
               /\ \A b \in Agents : trusted[b] # tok /\ agentToken[b] # tok
               /\ \A c \in Conns :
                    /\ sessions[c].token # tok
                    /\ \A i \in DOMAIN wire[c] : wire[c][i].token # tok
               /\ sessions'[sid].token = tok
               /\ sessions'[sid].status = "accepted"
               /\ clients' = clients
               /\ \A b \in Agents \ {a} : trusted'[b] = trusted[b]
               /\ Writable(ws) /\ Attached(ws) =>
                    /\ Len(wire'[ws]) = Len(wire[ws]) + 1
                    /\ wire'[ws][Len(wire'[ws])].type = "ACCEPT"
                    /\ wire'[ws][Len(wire'[ws])].token = tok]_vars

\* an agent's live session, accepted by the operator, with the TrustStore's
\* token, and the ACCEPT that carries it on its way to the agent
AcceptOperationWitness ==
  \E a \in Agents :
    /\ clients[a] # None /\ agentConn[a] = clients[a]
    /\ sessions[clients[a]].by = "operator"
    /\ sessions[clients[a]].token = trusted[a]
    /\ wire[clients[a]] # <<>>
    /\ wire[clients[a]][Len(wire[clients[a]])].token = trusted[a]

\* C29 - reject operation: reject_client(a) writes REJECT to the session's
\* connection and marks the session rejected; the connection is not closed
\* and the session stays in the live map with its handler; a later
\* accept_client(a) on that session makes it accepted, still in the live map
\* on the same connection, which is what fan-out sends to.
RejectOperation ==
  [][\A a \in Agents :
       clients[a] # None =>
         LET sid == clients[a]
             ws == sessions[sid].ws
         IN /\ (sessions[sid].status # "rejected" /\ sessions'[sid].status = "rejected")
                 => /\ Writable(ws) /\ Attached(ws) =>
                         /\ Len(wire'[ws]) = Len(wire[ws]) + 1
                         /\ wire'[ws][Len(wire'[ws])].type = "REJECT"
                    /\ wsState' = wsState
                    /\ clients' = clients
                    /\ handlerSession' = handlerSession
                    /\ trusted' = trusted
            /\ (sessions[sid].status = "rejected" /\ Accepts(a))
                 => /\ sessions'[sid].status = "accepted"
                    /\ clients'[a] = sid
                    /\ sessions'[sid].ws = ws
                    /\ wsState'[ws] = wsState[ws]
                    /\ sid \in {clients'[b] : b \in Agents}]_vars

\* a session the operator rejected after it had been accepted: REJECT is on
\* its way to the agent, its connection is open, it is the live session of
\* its agent_id
RejectOperationWitness ==
  \E a \in Agents :
    /\ clients[a] # None /\ agentConn[a] = clients[a]
    /\ sessions[clients[a]].status = "rejected"
    /\ wire[clients[a]] # <<>>
    /\ wire[clients[a]][Len(wire[clients[a]])].type = "REJECT"
    /\ sessions[clients[a]].token # NoToken
    /\ wsState[sessions[clients[a]].ws] = "open"
    /\ handlerSession[sessions[clients[a]].ws] = clients[a]

\* C30 - per-session command order: of two broadcasts of which one was
\* started before the other, every session that is sent both is sent the
\* earlier one's frame first, also when both are in progress at once (STOP
\* and BLACKOUT of the STOP button): no coroutine writes to a session that a
\* coroutine started after it has written to already.
PerSessionOrder ==
  [][\A j, k \in AllTasks :
       (tasks[k].pc = "run" /\ j \in tasks[k].after)
       => \A e \in tasks'[j].sent \ tasks[j].sent :
            e.open => ~\E f \in tasks[k].sent : f.sid = e.sid /\ f.open]_vars

\* C34 - estimator tie-break: after any sequence of add_sample calls that left
\* samples in the window, offset_ms is the offset of one sample of the window
\* (with an even number of retained samples the one of the two middle ones
\* with the lower t1), never a value between the offsets of two samples.
EstimatorTieBreak ==
  samples # <<>> =>
    \E i \in DOMAIN samples : offsetMs4 = 2 * OffsetMs2(samples[i])

\* C38 - a reject stands until the operator accepts again: while the live
\* session of an agent_id is rejected, no step but accept_client(agent_id) leaves
\* the agent_id with an accepted live session (the only sessions fan-out commands
\* and SYNC go to), neither an AUTH on the rejected session nor a new HELLO of
\* the agent_id with a token issued before.
RejectStands ==
  [][\A a \in Agents :
       (/\ clients[a] # None /\ sessions[clients[a]].status = "rejected"
        /\ clients'[a] # None /\ sessions'[clients'[a]].status = "accepted")
       => Accepts(a)]_vars

\* C36 - accepted means trusted: every session of the live map whose status is
\* accepted holds a token, and it is the TrustStore's token of its agent_id.
AcceptedHoldsTrusted ==
  \A a \in Agents :
    (clients[a] # None /\ sessions[clients[a]].status = "accepted")
    => /\ sessions[clients[a]].token # NoToken
       /\ sessions[clients[a]].token = trusted[a]

\* a live session accepted on the token of its HELLO or AUTH, after the
\* operator had issued the agent_id a second token
AcceptedHoldsTrustedWitness ==
  \E a \in Agents :
    /\ clients[a] # None
    /\ sessions[clients[a]].status = "accepted"
    /\ sessions[clients[a]].by \in {"hello", "auth"}
    /\ trusted[a] > 1

\* the PLAY_AT whose mpv.play() the agent commands in this step
Executed == IF reader = "sleeping" THEN waiting.m ELSE Head(inbox)

\* C39 - the cue played is the cue loaded: when the agent commands play for a
\* PLAY_AT {cue_id}, having handled a LOAD_CUE before, its current cue (set by
\* the last LOAD_CUE) is that cue_id.
PlaysLoadedCue ==
  [][(Len(plays') > Len(plays) /\ currentCue # "")
       => currentCue = Executed.cue_id]_vars

\* C31 - LOAD_CUE precedes PLAY_AT: every session the PLAY_AT of a GO is written
\* to has been written the LOAD_CUE of that GO before.
LoadBeforePlay ==
  [][tasks'[GoTask].type = "PLAY_AT" =>
       \A e \in tasks'[GoTask].sent \ tasks[GoTask].sent :
         e.open => e.sid \in tasks'[GoTask].loaded]_vars

\* C35 - the agent's own clock offset state never receives a sample: whatever
\* frames the agent receives, SYNC included, its sample_count stays 0 and its
\* offset_ms stays 0, so local_to_master(t) = t.
AgentKeepsNoSample ==
  /\ sampleCount = 0
  /\ offset2 = 0
  /\ LocalToMaster(now) = now

\* a SYNC was answered, and a PLAY_AT scheduled, by an agent whose clock is off
AgentKeepsNoSampleWitness ==
  /\ SyncReplied \in emitted
  /\ plays # <<>>
  /\ skew # 0

\* C32 - expected position: when the agent starts playing it records
\* (master_start, cue_start_time_ms), cue_start_time_ms being the start_time_ms
\* of the cue LOAD_CUE delivered, and a drift-loop iteration computes
\* expected_pos = (local_to_master(now) - master_start) + cue_start_time_ms and
\* drift_ms = actual_pos - expected_pos.
ExpectedPosition ==
  [][/\ Len(plays') > Len(plays) =>
          /\ cueStartMaster' = plays'[Len(plays')].master_start
          /\ cueStartTime' = StartTimeMs(currentCue)
     /\ corrected'.pos # None =>
          /\ corrected'.expected_pos_ms =
               (LocalToMaster(now) - cueStartMaster) + StartTimeMs(currentCue)
          /\ corrected'.drift_ms = corrected'.pos - corrected'.expected_pos_ms]_vars

\* C33 - drift-loop step: an iteration with the player position available
\* applies the decided action (rate_adjust: set the rate; hard_seek: seek to
\* max(0, expected_pos), then set the rate to 1.0; none: no command) and emits
\* exactly one DRIFT {offset_ms, drift_ms, action}; an iteration without the
\* position commands nothing and emits no DRIFT.
DriftLoopStep ==
  [][corrected' # NoCorrection =>
       IF corrected'.pos = None
         THEN corrected'.mpv = <<>> /\ corrected'.drift = <<>>
         ELSE LET c == corrected'
                  d == ComputeDriftCorrection(c.drift_ms, DefaultSync.max_drift_ms,
                                              DefaultSync.hard_seek_threshold_ms,
                                              DefaultSync.rate_min, DefaultSync.rate_max)
              IN /\ c.action = d.action
                 /\ c.action = "rate_adjust" => c.mpv = << <<"set_speed", d.rate>> >>
                 /\ c.action = "hard_seek" =>
                      c.mpv = << <<"seek", Max(0, c.expected_pos_ms)>>, <<"set_speed", RateOne>> >>
                 /\ c.action = "none" => c.mpv = <<>>
                 /\ Len(c.drift) = 1
                 /\ c.drift[1].offset_ms = offset2
                 /\ c.drift[1].drift_ms = c.drift_ms
                 /\ c.drift[1].action = c.action]_vars

\* C37 - every session of the live map belongs to an open connection: whatever
\* HELLOs (several on one connection included) and disconnects there were, the
\* live map holds no session whose connection has closed and whose handler is gone.
LiveMapOpen ==
  \A a \in Agents :
    clients[a] # None => wsState[sessions[clients[a]].ws] \in {"open", "closing"}

\* the agent a is connected, its connection is open, and its session is accepted
ConnectedAccepted(a) ==
  /\ agentConn[a] # None
  /\ wsState[agentConn[a]] = "open"
  /\ clients[a] = agentConn[a]
  /\ sessions[clients[a]].status = "accepted"

\* a HEARTBEAT of the agent a has just set the last_heartbeat of its session
Refreshed(a) ==
  /\ agentConn[a] # None
  /\ handled = [conn |-> agentConn[a], frame |-> ClientFrame("HEARTBEAT")]
  /\ sessions[handlerSession[agentConn[a]]].last_heartbeat = clock

\* C40 - heartbeats go on: while an agent's connection stays open, its accepted
\* session always eventually has last_heartbeat refreshed, also when the
\* session was rejected earlier on that connection and accepted afterwards.
HeartbeatsGoOn ==
  \A a \in Agents : ConnectedAccepted(a) ~> (Refreshed(a) \/ ~ConnectedAccepted(a))

====
